---------------------------- MODULE Spec2Model ----------------------------
(***************************************************************************)
(* A model of bidiff: the block hash index over the old buffer, the bsdiff *)
(* scan loop (BsdiffIterator), the Translator from Matches to Controls,    *)
(* the patch writer and the chunk applier.                                 *)
(*                                                                         *)
(* Positions are 0-based as in the Rust source; a buffer is a TLA+         *)
(* sequence, so byte i of buf is buf[i + 1].  usize arithmetic that would  *)
(* underflow and slices that would be out of range are reported through a  *)
(* panic flag instead of being silently computed.                          *)
(***************************************************************************)
EXTENDS Integers, Sequences, FiniteSets, TLC

(***************************************************************************)
(* Bounds of the model.                                                    *)
(***************************************************************************)
\* Longest new buffer drawn byte by byte by Init.
MaxNew == 5
\* Most pieces a new buffer drawn by Init is concatenated from.
MaxPieces == 3
\* Longest new buffer of a chunked run.
MaxParNew == 18
\* Most whole blocks an old buffer drawn by Init is made of.
MaxOldBlocks == 3

\* DiffParams::block_size of the runs (the smallest with_threads accepts).
BlockSize == 4

\* The byte values the buffers are drawn from; 0 - 1 wraps to 255.
Alphabet == {0, 1}

\* Option<T>: None is the empty sequence, Some(v) the sequence <<v>>.
None == <<>>

Some(v) == <<v>>

IsSome(o) == o /= <<>>

Unwrap(o) == o[1]

(***************************************************************************)
(* Byte helpers.                                                           *)
(***************************************************************************)
At(buf, i) == buf[i + 1]

\* buf[a..b] of the source; the caller has checked SliceOK.
Slice(buf, a, b) == SubSeq(buf, a + 1, b)

\* Whether buf[a..b] is a slice Rust accepts (it panics otherwise).
SliceOK(buf, a, b) == 0 <= a /\ a <= b /\ b <= Len(buf)

Min(a, b) == IF a < b THEN a ELSE b

Max(a, b) == IF a > b THEN a ELSE b

RECURSIVE common_prefix_from(_, _, _, _)
common_prefix_from(a, b, i, n) ==
    IF i < n /\ At(a, i) = At(b, i) THEN common_prefix_from(a, b, i + 1, n) ELSE i

\* hashindex.rs common_prefix_len: the word-wise XOR scan returns the index of
\* the first differing byte of the first differing word, the scalar tail the
\* first differing byte, both the length of the common prefix.
common_prefix_len(a, b) == common_prefix_from(a, b, 0, Min(Len(a), Len(b)))

RECURSIVE count_matching_from(_, _, _, _)
count_matching_from(a, b, i, n) ==
    IF i >= n THEN 0
    ELSE (IF At(a, i) = At(b, i) THEN 1 ELSE 0) + count_matching_from(a, b, i + 1, n)

\* lib.rs count_matching_bytes: zip stops at the shorter slice.
count_matching_bytes(a, b) == count_matching_from(a, b, 0, Min(Len(a), Len(b)))

(***************************************************************************)
(* 64-bit words are sequences of 8 byte limbs, least significant first     *)
(* (TLC's integers are 32 bits wide).                                      *)
(***************************************************************************)
RECURSIVE XorN(_, _, _)
XorN(x, y, n) ==
    IF n = 0 THEN 0 ELSE ((x + y) % 2) + 2 * XorN(x \div 2, y \div 2, n - 1)

Xor64(a, b) ==
    <<XorN(a[1], b[1], 8), XorN(a[2], b[2], 8), XorN(a[3], b[3], 8), XorN(a[4], b[4], 8),
      XorN(a[5], b[5], 8), XorN(a[6], b[6], 8), XorN(a[7], b[7], 8), XorN(a[8], b[8], 8)>>

RECURSIVE ColSum(_, _, _, _)
ColSum(a, b, k, i) ==
    IF i > 7 THEN 0
    ELSE (IF k - i >= 0 /\ k - i <= 7 THEN a[i + 1] * b[k - i + 1] ELSE 0)
         + ColSum(a, b, k, i + 1)

RECURSIVE MulLimbs(_, _, _, _)
MulLimbs(a, b, k, carry) ==
    IF k > 15 THEN <<>>
    ELSE LET t == ColSum(a, b, k, 0) + carry
         IN  <<t % 256>> \o MulLimbs(a, b, k + 1, t \div 256)

\* The 128-bit product of two u64, as 16 limbs.
Mul128(a, b) == MulLimbs(a, b, 0, 0)

\* u64::wrapping_mul
WrappingMul64(a, b) == SubSeq(Mul128(a, b), 1, 8)

\* hashindex.rs wymix: the low half of the 128-bit product XOR its high half.
wymix(a, b) ==
    LET r == Mul128(a, b) IN Xor64(SubSeq(r, 1, 8), SubSeq(r, 9, 16))

FnvOffsetBasis == <<37, 35, 34, 132, 228, 156, 242, 203>>   \* 0xcbf29ce484222325
FnvPrime == <<179, 1, 0, 0, 0, 1, 0, 0>>                    \* 0x100000001b3
WyP0 == <<47, 100, 189, 120, 100, 29, 118, 160>>            \* 0xa0761d6478bd642f
WyP1 == <<219, 40, 180, 160, 209, 126, 3, 231>>             \* 0xe7037ed1a0b428db
WyP2 == <<227, 198, 136, 156, 240, 106, 188, 142>>          \* 0x8ebc6af09c88c6e3
WyP3 == <<79, 18, 125, 196, 39, 78, 142, 29>>               \* 0x1d8e4e27c47d124f

RECURSIVE Fnv1a(_, _, _)
Fnv1a(data, i, h) ==
    IF i >= Len(data) THEN h
    ELSE Fnv1a(data, i + 1,
               WrappingMul64(Xor64(h, <<At(data, i), 0, 0, 0, 0, 0, 0, 0>>), FnvPrime))

\* hashindex.rs hash_block (little-endian host for from_ne_bytes), computed.
hash_block_compute(data) ==
    IF Len(data) < 32 THEN Fnv1a(data, 0, FnvOffsetBasis)
    ELSE Xor64(wymix(Xor64(Slice(data, 0, 8), WyP0), Xor64(Slice(data, 8, 16), WyP1)),
               wymix(Xor64(Slice(data, 16, 24), WyP2), Xor64(Slice(data, 24, 32), WyP3)))

\* The hashes of the blocks the drawn buffers can hold are computed once:
\* a block of MemoLen bytes of Alphabet has the code of its bytes' ranks.
MemoLen == BlockSize

Rank(b) == Cardinality({a \in Alphabet : a < b})

RECURSIVE BlockCode(_, _)
BlockCode(data, i) ==
    IF i >= Len(data) THEN 0
    ELSE Rank(At(data, i)) + Cardinality(Alphabet) * BlockCode(data, i + 1)

RECURSIVE BlockOfCode(_, _)
BlockOfCode(c, n) ==
    IF n = 0 THEN <<>>
    ELSE <<CHOOSE b \in Alphabet : Rank(b) = c % Cardinality(Alphabet)>>
         \o BlockOfCode(c \div Cardinality(Alphabet), n - 1)

HashMemo ==
    LET n == Cardinality(Alphabet) ^ MemoLen
    IN  SubSeq([k \in 1..n |-> hash_block_compute(BlockOfCode(k - 1, MemoLen))], 1, n)

\* hashindex.rs hash_block
hash_block(data) ==
    IF Len(data) = MemoLen /\ \A i \in 1..Len(data) : data[i] \in Alphabet
    THEN HashMemo[BlockCode(data, 0) + 1]
    ELSE hash_block_compute(data)

(***************************************************************************)
(* Hash index: packed entries, table sizing, serial population, lookup.    *)
(* A packed u64 entry is the pair of its halves: tag, the upper 32 bits    *)
(* (4 limbs), and off1, the lower 32 bits (offset + 1, 0 when EMPTY).      *)
(***************************************************************************)
BUCKET_SIZE == 8

EMPTY == [tag |-> <<0, 0, 0, 0>>, off1 |-> 0]

\* A pack_entry that stores the offset itself.
pack_entry_raw(offset, hash) == [tag |-> SubSeq(hash, 5, 8), off1 |-> offset]

\* (hash & 0xFFFF_FFFF_0000_0000) | (offset as u64 + 1)
pack_entry(offset, hash) == [tag |-> SubSeq(hash, 5, 8), off1 |-> offset + 1]

\* (entry as u32) - 1
entry_offset(entry) == entry.off1 - 1

\* (entry >> 32) as u32
entry_tag(entry) == entry.tag

\* A faulty tag, taken from the lower half of the hash.
hash_tag_low(h) == SubSeq(h, 1, 4)

\* (h >> 32) as u32
hash_tag(h) == SubSeq(h, 5, 8)

\* h as usize & mask, mask + 1 a power of two below 2^24.
hash_bucket(h, mask) == (h[1] + 256 * h[2] + 65536 * h[3]) % (mask + 1)

RECURSIVE next_power_of_two_from(_, _)
next_power_of_two_from(n, p) == IF p >= n THEN p ELSE next_power_of_two_from(n, 2 * p)

next_power_of_two(n) == next_power_of_two_from(n, 1)

\* A division that rounds down.
div_floor(a, b) == a \div b

div_ceil(a, b) == (a + b - 1) \div b

\* HashIndex::new_empty: the index over text with every slot EMPTY.
new_empty(text, block_size) ==
    LET num_entries == Len(text) \div block_size
        num_buckets == Max(next_power_of_two(div_ceil(num_entries * 2, BUCKET_SIZE)), 1)
    IN  IF Len(text) < block_size \/ num_entries = 0
        THEN [text |-> text, block_size |-> block_size,
              table |-> [s \in 1..BUCKET_SIZE |-> EMPTY], mask |-> 0]
        ELSE [text |-> text, block_size |-> block_size,
              table |-> [s \in 1..(num_buckets * BUCKET_SIZE) |-> EMPTY],
              mask |-> num_buckets - 1]

\* The block of text at a block-aligned offset.
BlockAt(text, offset, block_size) == Slice(text, offset, offset + block_size)

\* One insertion of the serial path of populate (the 'insert loop): the first
\* EMPTY slot, or the first slot holding the same block, receives packed.
RECURSIVE insert_serial(_, _, _, _, _, _)
insert_serial(idx, table, offset, h, bucket, i) ==
    LET slot  == bucket * BUCKET_SIZE + i
        entry == table[slot + 1]
        block == BlockAt(idx.text, offset, idx.block_size)
    IN  IF i >= BUCKET_SIZE
        THEN insert_serial(idx, table, offset, h, (bucket + 1) % (idx.mask + 1), 0)
        ELSE IF entry = EMPTY
        THEN [table EXCEPT ![slot + 1] = pack_entry(offset, h)]
        ELSE IF entry_tag(entry) = hash_tag(h)
                /\ BlockAt(idx.text, entry_offset(entry), idx.block_size) = block
        THEN [table EXCEPT ![slot + 1] = pack_entry(offset, h)]
        ELSE insert_serial(idx, table, offset, h, bucket, i + 1)

PIPE_DEPTH == 8

\* One iteration of the main loop of the serial path.  st is the loop's
\* state: the table, the pipeline (the hashes and offsets of the next
\* PIPE_DEPTH blocks, its head), next_idx, and the iterations left.
populate_step(idx, st) ==
    [table       |-> insert_serial(idx, st.table, st.pipe_offset[st.head + 1],
                                   st.pipe_hash[st.head + 1],
                                   hash_bucket(st.pipe_hash[st.head + 1], idx.mask), 0),
     pipe_hash   |-> IF st.next_idx > 0
                     THEN [st.pipe_hash EXCEPT ![st.head + 1] =
                              hash_block(BlockAt(idx.text,
                                                 (st.next_idx - 1) * idx.block_size,
                                                 idx.block_size))]
                     ELSE st.pipe_hash,
     pipe_offset |-> IF st.next_idx > 0
                     THEN [st.pipe_offset EXCEPT ![st.head + 1] =
                              (st.next_idx - 1) * idx.block_size]
                     ELSE st.pipe_offset,
     head        |-> (st.head + 1) % PIPE_DEPTH,
     next_idx    |-> IF st.next_idx > 0 THEN st.next_idx - 1 ELSE st.next_idx,
     left        |-> st.left - 1]

RECURSIVE populate_loop(_, _)
populate_loop(idx, st) ==
    IF st.left = 0 THEN st.table ELSE populate_loop(idx, populate_step(idx, st))

\* HashIndex::populate, serial path: blocks are inserted from the last to the
\* first through a prefetch pipeline of depth PIPE_DEPTH.
populate(idx) ==
    LET num_entries == Len(idx.text) \div idx.block_size
        prefill     == Min(PIPE_DEPTH, num_entries)
        off(k)      == (num_entries - 1 - k) * idx.block_size
        zero        == <<0, 0, 0, 0, 0, 0, 0, 0>>
    IN  IF num_entries = 0 THEN idx
        ELSE [idx EXCEPT !.table =
                 populate_loop(idx,
                     [table       |-> idx.table,
                      pipe_hash   |-> [k \in 1..PIPE_DEPTH |->
                                          IF k - 1 < prefill
                                          THEN hash_block(BlockAt(idx.text, off(k - 1),
                                                                  idx.block_size))
                                          ELSE zero],
                      pipe_offset |-> [k \in 1..PIPE_DEPTH |->
                                          IF k - 1 < prefill THEN off(k - 1) ELSE 0],
                      head        |-> 0,
                      next_idx    |-> Max(num_entries - PIPE_DEPTH, 0),
                      left        |-> num_entries])]

\* HashIndex::new
new_index(text, block_size) == populate(new_empty(text, block_size))

\* A lookup that gives up one bucket later.
lookup_slot_six(idx, block, h, p, entry) ==
    LET o    == entry_offset(entry)
        r(d, res, pan, q) == [done |-> d, res |-> res, panic |-> pan, p |-> q]
    IN  IF entry = EMPTY THEN r(TRUE, None, FALSE, p)
        ELSE IF entry_tag(entry) = hash_tag(h)
                /\ ~SliceOK(idx.text, o, o + idx.block_size)
        THEN r(TRUE, None, TRUE, p)
        ELSE IF entry_tag(entry) = hash_tag(h)
                /\ Slice(idx.text, o, o + idx.block_size) = block
        THEN r(TRUE, Some(o), FALSE, p)
        ELSE IF p.i + 1 < BUCKET_SIZE
        THEN r(FALSE, None, FALSE, [p EXCEPT !.i = p.i + 1])
        ELSE IF p.probes + 1 > 5
        THEN r(TRUE, None, FALSE, p)
        ELSE r(FALSE, None, FALSE,
               [bucket |-> (p.bucket + 1) % (idx.mask + 1), i |-> 0,
                probes |-> p.probes + 1])

(***************************************************************************)
(* Lookup.  lookup_slot is the body of the slot loop of lookup_with_hash   *)
(* for one table.get: given the probe position p = [bucket, i, probes] and *)
(* the entry read there, it returns the lookup's result (res, or panic for *)
(* a text slice out of range) or the next probe position.                  *)
(***************************************************************************)
lookup_slot(idx, block, h, p, entry) ==
    LET o    == entry_offset(entry)
        r(d, res, pan, q) == [done |-> d, res |-> res, panic |-> pan, p |-> q]
    IN  IF entry = EMPTY THEN r(TRUE, None, FALSE, p)
        ELSE IF entry_tag(entry) = hash_tag(h)
                /\ ~SliceOK(idx.text, o, o + idx.block_size)
        THEN r(TRUE, None, TRUE, p)
        ELSE IF entry_tag(entry) = hash_tag(h)
                /\ Slice(idx.text, o, o + idx.block_size) = block
        THEN r(TRUE, Some(o), FALSE, p)
        ELSE IF p.i + 1 < BUCKET_SIZE
        THEN r(FALSE, None, FALSE, [p EXCEPT !.i = p.i + 1])
        ELSE IF p.probes + 1 > 4
        THEN r(TRUE, None, FALSE, p)
        ELSE r(FALSE, None, FALSE,
               [bucket |-> (p.bucket + 1) % (idx.mask + 1), i |-> 0,
                probes |-> p.probes + 1])

RECURSIVE lookup_from(_, _, _, _)
lookup_from(idx, block, h, p) ==
    LET r == lookup_slot(idx, block, h, p, idx.table[p.bucket * BUCKET_SIZE + p.i + 1])
    IN  IF r.done THEN [res |-> r.res, panic |-> r.panic]
        ELSE lookup_from(idx, block, h, r.p)

\* The first probe position of lookup_with_hash: slot 0 of the home bucket.
probe_start(idx, h) == [bucket |-> hash_bucket(h, idx.mask), i |-> 0, probes |-> 0]

\* HashIndex::lookup_with_hash on a table nobody is writing.
lookup_with_hash(idx, block, h) == lookup_from(idx, block, h, probe_start(idx, h))

\* HashIndex::lookup
lookup(idx, block) == lookup_with_hash(idx, block, hash_block(block))

NoMatch == [start |-> 0, len |-> 0, panic |-> FALSE]

\* A faulty extension, which compares the needle's remainder with the text
\* from the start of the block found.
extend_match_no_skip(idx, needle, found) ==
    IF found.panic THEN [start |-> 0, len |-> 0, panic |-> TRUE]
    ELSE IF found.res = None THEN NoMatch
    ELSE [start |-> Unwrap(found.res),
          len   |-> idx.block_size
                    + common_prefix_len(
                          Slice(idx.text, Unwrap(found.res), Len(idx.text)),
                          Slice(needle, idx.block_size, Len(needle))),
          panic |-> FALSE]

\* The tail shared by longest_substring_match and longest_substring_match_with_hash:
\* extend the hit found by the lookup with common_prefix_len.
extend_match(idx, needle, found) ==
    IF found.panic THEN [start |-> 0, len |-> 0, panic |-> TRUE]
    ELSE IF found.res = None THEN NoMatch
    ELSE LET text_offset == Unwrap(found.res)
         IN  [start |-> text_offset,
              len   |-> idx.block_size
                        + common_prefix_len(
                              Slice(idx.text, text_offset + idx.block_size, Len(idx.text)),
                              Slice(needle, idx.block_size, Len(needle))),
              panic |-> FALSE]

\* HashIndex::longest_substring_match_with_hash
longest_substring_match_with_hash(idx, needle, h) ==
    IF Len(needle) < idx.block_size \/ Len(idx.text) < idx.block_size THEN NoMatch
    ELSE extend_match(idx, needle,
                      lookup_with_hash(idx, Slice(needle, 0, idx.block_size), h))

\* HashIndex::longest_substring_match
longest_substring_match(idx, needle) ==
    IF Len(needle) < idx.block_size \/ Len(idx.text) < idx.block_size THEN NoMatch
    ELSE extend_match(idx, needle, lookup(idx, Slice(needle, 0, idx.block_size)))

\* A prefetch_block that hashes one byte less than a block.
prefetch_block_short(idx, data) ==
    IF Len(data) >= idx.block_size
    THEN Some(hash_block(Slice(data, 0, idx.block_size - 1)))
    ELSE None

\* HashIndex::prefetch_block: the hash of the first block, None when data is
\* shorter than a block (the prefetch itself is a hint without effect).
prefetch_block(idx, data) ==
    IF Len(data) >= idx.block_size THEN Some(hash_block(Slice(data, 0, idx.block_size)))
    ELSE None

(***************************************************************************)
(* BsdiffIterator: the scan loop.  An iterator is the record of its        *)
(* cursors; next returns the iterator after the call, the Match it yields  *)
(* (out: an Option) and whether the call panicked.                         *)
(***************************************************************************)
\* BsdiffIterator::new
iter_new ==
    [scan |-> 0, pos |-> 0, length |-> 0, lastscan |-> 0, lastpos |-> 0,
     lastoffset |-> 0, cached_hash |-> None]

Bool2Int(b) == IF b THEN 1 ELSE 0

\* The slow path of the oldscore update: for i in scsc..end, count the i
\* whose shifted old index (i + lastoffset) as usize is in bounds and whose
\* bytes agree (a negative index casts to a huge usize, which is out of bounds).
RECURSIVE oldscore_slow(_, _, _, _, _)
oldscore_slow(obuf, nbuf, lastoffset, i, end) ==
    IF i >= end THEN 0
    ELSE LET oi == i + lastoffset
         IN  Bool2Int(oi >= 0 /\ oi < Len(obuf) /\ At(obuf, oi) = At(nbuf, i))
             + oldscore_slow(obuf, nbuf, lastoffset, i + 1, end)

\* The oldscore gained from nbuf[scsc..end] (lib.rs 222-246).
\* A faulty update, which scores every byte of the range as equal.
oldscore_gain_whole(obuf, nbuf, lastoffset, scsc, end) == end - scsc

oldscore_gain(obuf, nbuf, lastoffset, scsc, end) ==
    LET o_start == scsc + lastoffset
        o_end   == end + lastoffset
    IN  IF o_start >= 0 /\ o_end >= 0 /\ o_end <= Len(obuf)
        THEN count_matching_bytes(Slice(obuf, o_start, o_start + (end - scsc)),
                                  Slice(nbuf, scsc, end))
        ELSE oldscore_slow(obuf, nbuf, lastoffset, scsc, end)

\* The 'inner loop of next, from the iterator it with the running oldscore
\* and scsc; broke tells whether it ended by break (a better or equal match).
\* inner_loop looks the needle up (lib.rs 199-213), inner_score updates
\* oldscore over the new part of the match (216-246) and inner_decide breaks
\* or moves scan one byte on (248-270).
RECURSIVE inner_loop(_, _, _, _, _, _)
\* A faulty decision, which takes every match longer than oldscore.
inner_decide_any_gain(it, obuf, nbuf, idx, res, score, scsc2) ==
    IF res.len > score
    THEN [it |-> [it EXCEPT !.pos = res.start, !.length = res.len, !.cached_hash = None],
          oldscore |-> score, broke |-> TRUE, panic |-> FALSE]
    ELSE inner_loop([it EXCEPT !.pos = res.start, !.length = res.len,
                               !.cached_hash = None, !.scan = it.scan + 1],
                    obuf, nbuf, idx,
                    score - Bool2Int(/\ it.scan + it.lastoffset >= 0
                                     /\ it.scan + it.lastoffset < Len(obuf)
                                     /\ At(obuf, it.scan + it.lastoffset)
                                            = At(nbuf, it.scan)),
                    scsc2)

\* A faulty decision, which takes an empty match for a stalemate.
inner_decide_empty_stalemate(it, obuf, nbuf, idx, res, score, scsc2) ==
    IF res.len = score \/ res.len > score + 8
    THEN [it |-> [it EXCEPT !.pos = res.start, !.length = res.len, !.cached_hash = None],
          oldscore |-> score, broke |-> TRUE, panic |-> FALSE]
    ELSE inner_loop([it EXCEPT !.pos = res.start, !.length = res.len,
                               !.cached_hash = None, !.scan = it.scan + 1],
                    obuf, nbuf, idx,
                    score - Bool2Int(/\ it.scan + it.lastoffset >= 0
                                     /\ it.scan + it.lastoffset < Len(obuf)
                                     /\ At(obuf, it.scan + it.lastoffset)
                                            = At(nbuf, it.scan)),
                    scsc2)

inner_decide(it, obuf, nbuf, idx, res, score, scsc2) ==
    IF (res.len = score /\ res.len /= 0) \/ res.len > score + 8
    THEN [it |-> [it EXCEPT !.pos = res.start, !.length = res.len,
                            !.cached_hash =
                                IF it.scan + res.len < Len(nbuf)
                                THEN prefetch_block(idx,
                                         Slice(nbuf, it.scan + res.len, Len(nbuf)))
                                ELSE None],
          oldscore |-> score, broke |-> TRUE, panic |-> FALSE]
    ELSE inner_loop([it EXCEPT !.pos = res.start, !.length = res.len,
                               !.cached_hash =
                                   IF it.scan + 1 < Len(nbuf)
                                   THEN prefetch_block(idx,
                                            Slice(nbuf, it.scan + 1, Len(nbuf)))
                                   ELSE None,
                               !.scan = it.scan + 1],
                    obuf, nbuf, idx,
                    score - Bool2Int(/\ it.scan + it.lastoffset >= 0
                                     /\ it.scan + it.lastoffset < Len(obuf)
                                     /\ At(obuf, it.scan + it.lastoffset)
                                            = At(nbuf, it.scan)),
                    scsc2)

inner_score(it, obuf, nbuf, idx, oldscore, scsc, res) ==
    IF res.panic
    THEN [it |-> it, oldscore |-> oldscore, broke |-> FALSE, panic |-> TRUE]
    ELSE IF scsc < it.scan + res.len
    THEN inner_decide(it, obuf, nbuf, idx, res,
                      oldscore + oldscore_gain(obuf, nbuf, it.lastoffset, scsc,
                                               it.scan + res.len),
                      it.scan + res.len)
    ELSE inner_decide(it, obuf, nbuf, idx, res, oldscore, scsc)

inner_loop(it, obuf, nbuf, idx, oldscore, scsc) ==
    IF ~(it.scan < Len(nbuf))
    THEN [it |-> it, oldscore |-> oldscore, broke |-> FALSE, panic |-> FALSE]
    ELSE inner_score(it, obuf, nbuf, idx, oldscore, scsc,
                     IF IsSome(it.cached_hash)
                     THEN longest_substring_match_with_hash(
                              idx, Slice(nbuf, it.scan, Len(nbuf)), Unwrap(it.cached_hash))
                     ELSE longest_substring_match(idx, Slice(nbuf, it.scan, Len(nbuf))))

\* Forward extension (lib.rs 276-299): o_slice and n_slice have length n.
\* A faulty forward extension, which moves on to a later length of equal score.
RECURSIVE lenf_loop_ties(_, _, _, _, _, _, _)
lenf_loop_ties(o_slice, n_slice, i, n, s, sf, lenf) ==
    IF i >= n THEN lenf
    ELSE LET s2  == s + Bool2Int(At(o_slice, i) = At(n_slice, i))
             i1  == i + 1
             upd == s2 * 2 - i1 >= sf * 2 - lenf
         IN  lenf_loop_ties(o_slice, n_slice, i + 1, n, s2,
                            IF upd THEN s2 ELSE sf, IF upd THEN i1 ELSE lenf)

RECURSIVE lenf_loop(_, _, _, _, _, _, _)
lenf_loop(o_slice, n_slice, i, n, s, sf, lenf) ==
    IF i >= n THEN lenf
    ELSE LET s2  == s + Bool2Int(At(o_slice, i) = At(n_slice, i))
             i1  == i + 1
             upd == s2 * 2 - i1 > sf * 2 - lenf
         IN  lenf_loop(o_slice, n_slice, i + 1, n, s2,
                       IF upd THEN s2 ELSE sf, IF upd THEN i1 ELSE lenf)

\* Backward extension (lib.rs 302-324): i runs over 1..=n from the slices' end.
RECURSIVE lenb_loop(_, _, _, _, _, _, _)
lenb_loop(o_slice, n_slice, i, n, s, sb, lenb) ==
    IF i > n THEN lenb
    ELSE LET s2  == s + Bool2Int(At(o_slice, n - i) = At(n_slice, n - i))
             upd == s2 * 2 - i > sb * 2 - lenb
         IN  lenb_loop(o_slice, n_slice, i + 1, n, s2,
                       IF upd THEN s2 ELSE sb, IF upd THEN i ELSE lenb)

\* Overlap scoring (lib.rs 333-358).
RECURSIVE lens_loop(_, _, _, _, _, _, _, _, _)
lens_loop(last_n, last_o, cur_n, cur_o, i, overlap, s, ss, lens) ==
    IF i >= overlap THEN lens
    ELSE LET s2  == s + Bool2Int(At(last_n, i) = At(last_o, i))
                      - Bool2Int(At(cur_n, i) = At(cur_o, i))
             upd == s2 > ss
         IN  lens_loop(last_n, last_o, cur_n, cur_o, i + 1, overlap, s2,
                       IF upd THEN s2 ELSE ss, IF upd THEN i + 1 ELSE lens)

PanicStep(it) == [it |-> it, out |-> None, panic |-> TRUE]

\* A faulty overlap resolution, which leaves both extensions as they are.
resolve_overlap_skip(it, obuf, nbuf, lenf0, lenb0) ==
    [lenf |-> lenf0, lenb |-> lenb0, ok |-> TRUE]

\* The overlap resolution (lib.rs 326-364): when the forward extension of
\* the last match runs past the backward extension of this one, lens of the
\* overlap goes to the last match; ok is FALSE when a slice is out of range.
\* A faulty resolution, which leaves out `lenb -= lens`.
resolve_overlap_keep_lenb(it, obuf, nbuf, lenf0, lenb0) ==
    LET overlap == (it.lastscan + lenf0) - (it.scan - lenb0)
        lens    == lens_loop(
                       Slice(nbuf, it.lastscan + lenf0 - overlap, it.lastscan + lenf0),
                       Slice(obuf, it.lastpos + lenf0 - overlap, it.lastpos + lenf0),
                       Slice(nbuf, it.scan - lenb0, it.scan - lenb0 + overlap),
                       Slice(obuf, it.pos - lenb0, it.pos - lenb0 + overlap),
                       0, overlap, 0, 0, 0)
    IN  IF ~(it.lastscan + lenf0 > it.scan - lenb0)
        THEN [lenf |-> lenf0, lenb |-> lenb0, ok |-> TRUE]
        ELSE [lenf |-> lenf0 + lens - overlap, lenb |-> lenb0, ok |-> TRUE]

resolve_overlap(it, obuf, nbuf, lenf0, lenb0) ==
    LET lastscan_was_better == it.lastscan + lenf0 > it.scan - lenb0
        overlap == (it.lastscan + lenf0) - (it.scan - lenb0)
        oko     == /\ SliceOK(nbuf, it.lastscan + lenf0 - overlap, it.lastscan + lenf0)
                   /\ SliceOK(obuf, it.lastpos + lenf0 - overlap, it.lastpos + lenf0)
                   /\ SliceOK(nbuf, it.scan - lenb0, it.scan - lenb0 + overlap)
                   /\ SliceOK(obuf, it.pos - lenb0, it.pos - lenb0 + overlap)
        lens    == lens_loop(
                       Slice(nbuf, it.lastscan + lenf0 - overlap, it.lastscan + lenf0),
                       Slice(obuf, it.lastpos + lenf0 - overlap, it.lastpos + lenf0),
                       Slice(nbuf, it.scan - lenb0, it.scan - lenb0 + overlap),
                       Slice(obuf, it.pos - lenb0, it.pos - lenb0 + overlap),
                       0, overlap, 0, 0, 0)
    IN  IF ~lastscan_was_better THEN [lenf |-> lenf0, lenb |-> lenb0, ok |-> TRUE]
        ELSE IF ~oko THEN [lenf |-> lenf0, lenb |-> lenb0, ok |-> FALSE]
        ELSE [lenf |-> lenf0 + lens - overlap, lenb |-> lenb0 - lens, ok |-> TRUE]

\* A faulty Match, whose copy_end forgets the backward extension.
make_match_full_scan(it, lenf, lenb) ==
    [add_old_start |-> it.lastpos, add_new_start |-> it.lastscan,
     add_length |-> lenf, copy_end |-> it.scan]

\* The Match next returns (lib.rs 366-371).
make_match(it, lenf, lenb) ==
    [add_old_start |-> it.lastpos, add_new_start |-> it.lastscan,
     add_length |-> lenf, copy_end |-> it.scan - lenb]

\* A faulty cursor update, which leaves lastscan where it was.
advance_keep_lastscan(it, lenb) ==
    [it EXCEPT !.lastpos = it.pos - lenb, !.lastoffset = it.pos - it.scan]

\* The cursor update after a Match (lib.rs 373-375).
\* A faulty update, which leaves lastoffset as it was.
advance_stale_offset(it, lenb) ==
    [it EXCEPT !.lastscan = it.scan - lenb, !.lastpos = it.pos - lenb]

advance(it, lenb) ==
    [it EXCEPT !.lastscan = it.scan - lenb,
               !.lastpos = it.pos - lenb,
               !.lastoffset = it.pos - it.scan]

\* The emit step of next (lib.rs 276-377): lenf, lenb, the overlap
\* resolution, the Match and the cursor update.
emit_step(it, obuf, nbuf) ==
    LET obuflen == Len(obuf)
        nbuflen == Len(nbuf)
        nf      == Min(it.scan - it.lastscan, obuflen - it.lastpos)
        okf     == it.scan >= it.lastscan /\ obuflen >= it.lastpos
                   /\ SliceOK(obuf, it.lastpos, it.lastpos + nf)
                   /\ SliceOK(nbuf, it.lastscan, it.lastscan + nf)
        lenf0   == lenf_loop(Slice(obuf, it.lastpos, it.lastpos + nf),
                             Slice(nbuf, it.lastscan, it.lastscan + nf), 0, nf, 0, 0, 0)
        nb      == Min(it.scan - it.lastscan, it.pos)
        okb     == IF it.scan >= nbuflen THEN TRUE
                   ELSE SliceOK(obuf, it.pos - nb, it.pos)
                        /\ SliceOK(nbuf, it.scan - nb, it.scan)
        lenb0   == IF it.scan >= nbuflen THEN 0
                   ELSE lenb_loop(Slice(obuf, it.pos - nb, it.pos),
                                  Slice(nbuf, it.scan - nb, it.scan), 1, nb, 0, 0, 0)
        ro      == resolve_overlap(it, obuf, nbuf, lenf0, lenb0)
    IN  IF ~okf THEN PanicStep(it)
        ELSE IF ~okb THEN PanicStep(it)
        ELSE IF ~ro.ok THEN PanicStep(it)
        ELSE IF ro.lenf < 0 \/ ro.lenb < 0 \/ it.scan - ro.lenb < 0 \/ it.pos - ro.lenb < 0
        THEN PanicStep(it)
        ELSE [it  |-> advance(it, ro.lenb),
              out |-> Some(make_match(it, ro.lenf, ro.lenb)), panic |-> FALSE]

\* The outer `while self.scan < nbuflen` of next: outer_loop runs the inner
\* loop from scan + length, outer_emit decides on its outcome r whether a
\* Match is due (lib.rs 273-274).
RECURSIVE outer_loop(_, _, _, _)
\* A faulty outer step, which emits whatever the inner loop ended on.
outer_emit_always(r, obuf, nbuf, idx) ==
    IF r.panic THEN PanicStep(r.it) ELSE emit_step(r.it, obuf, nbuf)

outer_emit(r, obuf, nbuf, idx) ==
    IF r.panic THEN PanicStep(r.it)
    ELSE IF r.it.length /= r.oldscore \/ r.it.scan = Len(nbuf)
    THEN emit_step(r.it, obuf, nbuf)
    ELSE outer_loop(r.it, obuf, nbuf, idx)

outer_loop(it, obuf, nbuf, idx) ==
    IF ~(it.scan < Len(nbuf)) THEN [it |-> it, out |-> None, panic |-> FALSE]
    ELSE outer_emit(inner_loop([it EXCEPT !.scan = it.scan + it.length],
                               obuf, nbuf, idx, 0, it.scan + it.length),
                    obuf, nbuf, idx)

\* BsdiffIterator::next
next(it, obuf, nbuf, idx) == outer_loop(it, obuf, nbuf, idx)

\* Every Match an iterator yields from it on, in order: the Matches a scan
\* hands over when it is drained in one go.
RECURSIVE collect(_, _, _, _)
collect_from(r, obuf, nbuf, idx) ==
    IF r.panic THEN [ms |-> <<>>, panic |-> TRUE]
    ELSE IF r.out = None THEN [ms |-> <<>>, panic |-> FALSE]
    ELSE [collect(r.it, obuf, nbuf, idx) EXCEPT !.ms = r.out \o @]

collect(it, obuf, nbuf, idx) == collect_from(next(it, obuf, nbuf, idx), obuf, nbuf, idx)

(***************************************************************************)
(* Translator: Matches to Controls.  A translator is the record of its     *)
(* fields prev_match (an Option), buf and closed.  The operators return    *)
(* the translator after the call, the Control handed to on_control (ctl:   *)
(* an Option), the call's result (ok) and whether it panicked; cb_ok is    *)
(* what on_control returns (TRUE for Ok).                                  *)
(***************************************************************************)
\* Translator::new
translator_new == [prev_match |-> None, buf |-> <<>>, closed |-> FALSE]

\* A faulty copy_start, which forgets the ADD bytes.
copy_start_at_add(m) == m.add_new_start

\* Match::copy_start
copy_start(m) == m.add_new_start + m.add_length

\* A faulty delta, with the operands swapped.
wrapping_sub_swapped(a, b) == (b - a + 256) % 256

\* u8::wrapping_sub
wrapping_sub(a, b) == (a - b + 256) % 256

\* u8::wrapping_add
wrapping_add(a, b) == (a + b) % 256

\* A faulty take, which leaves the value in place (as as_ref would).
take_as_ref(tr) == tr

\* self.prev_match.take() in send_control: the translator afterwards.
take(tr) == [tr EXCEPT !.prev_match = None]

\* A faulty send_control, whose seek is measured from the start of the
\* previous Match's old range instead of from its end.
send_control_from_start(tr, m, nbuf, cb_ok) ==
    IF tr.prev_match = None
    THEN [tr |-> tr, ctl |-> None, ok |-> TRUE, panic |-> FALSE]
    ELSE LET pm  == Unwrap(tr.prev_match)
             tr2 == take(tr)
         IN  IF ~SliceOK(tr.buf, 0, pm.add_length)
                \/ ~SliceOK(nbuf, copy_start(pm), pm.copy_end)
             THEN [tr |-> tr2, ctl |-> None, ok |-> TRUE, panic |-> TRUE]
             ELSE [tr  |-> tr2,
                   ctl |-> Some([add  |-> Slice(tr.buf, 0, pm.add_length),
                                 copy |-> Slice(nbuf, copy_start(pm), pm.copy_end),
                                 seek |-> IF IsSome(m)
                                          THEN Unwrap(m).add_old_start - pm.add_old_start
                                          ELSE 0]),
                   ok |-> cb_ok, panic |-> FALSE]

\* Translator::send_control: m is the Option of the Match that follows.
send_control(tr, m, nbuf, cb_ok) ==
    IF tr.prev_match = None
    THEN [tr |-> tr, ctl |-> None, ok |-> TRUE, panic |-> FALSE]
    ELSE LET pm  == Unwrap(tr.prev_match)
             tr2 == take(tr)
         IN  IF ~SliceOK(tr.buf, 0, pm.add_length)
                \/ ~SliceOK(nbuf, copy_start(pm), pm.copy_end)
             THEN [tr |-> tr2, ctl |-> None, ok |-> TRUE, panic |-> TRUE]
             ELSE [tr  |-> tr2,
                   ctl |-> Some([add  |-> Slice(tr.buf, 0, pm.add_length),
                                 copy |-> Slice(nbuf, copy_start(pm), pm.copy_end),
                                 seek |-> IF IsSome(m)
                                          THEN Unwrap(m).add_old_start
                                               - (pm.add_old_start + pm.add_length)
                                          ELSE 0]),
                   ok |-> cb_ok, panic |-> FALSE]

\* A faulty translate, which keeps m as the pending Match although
\* on_control failed on the Control before it.
translate_keeps_failed(tr, m, obuf, nbuf, cb_ok) ==
    LET sc == send_control(tr, Some(m), nbuf, cb_ok)
    IN  IF sc.panic THEN sc
        ELSE IF ~SliceOK(nbuf, m.add_new_start, m.add_new_start + m.add_length)
                \/ ~SliceOK(obuf, m.add_old_start, m.add_old_start + m.add_length)
        THEN [sc EXCEPT !.panic = TRUE, !.tr.buf = <<>>]
        ELSE [sc EXCEPT
                 !.tr.buf = [j \in 1..m.add_length |->
                                wrapping_sub(At(nbuf, m.add_new_start + j - 1),
                                             At(obuf, m.add_old_start + j - 1))],
                 !.tr.prev_match = Some(m)]

\* Translator::translate
translate(tr, m, obuf, nbuf, cb_ok) ==
    LET sc == send_control(tr, Some(m), nbuf, cb_ok)
    IN  IF sc.panic \/ ~sc.ok THEN sc
        ELSE IF ~SliceOK(nbuf, m.add_new_start, m.add_new_start + m.add_length)
                \/ ~SliceOK(obuf, m.add_old_start, m.add_old_start + m.add_length)
        THEN [sc EXCEPT !.panic = TRUE, !.tr.buf = <<>>]
        ELSE [sc EXCEPT
                 !.tr.buf = [j \in 1..m.add_length |->
                                wrapping_sub(At(nbuf, m.add_new_start + j - 1),
                                             At(obuf, m.add_old_start + j - 1))],
                 !.tr.prev_match = Some(m)]

\* A faulty do_close, which marks the translator closed without the flush.
do_close_no_flush(tr, nbuf, cb_ok) ==
    [tr |-> [tr EXCEPT !.closed = TRUE], ctl |-> None, ok |-> TRUE, panic |-> FALSE]

\* Translator::do_close
do_close(tr, nbuf, cb_ok) ==
    IF tr.closed THEN [tr |-> tr, ctl |-> None, ok |-> TRUE, panic |-> FALSE]
    ELSE LET sc == send_control(tr, None, nbuf, cb_ok)
         IN  IF sc.panic \/ ~sc.ok THEN sc ELSE [sc EXCEPT !.tr.closed = TRUE]

(***************************************************************************)
(* The applier of assert_cycle_with_params (the on_control closure): it    *)
(* rebuilds the new file from older and the Controls.  fresh holds the     *)
(* bytes rebuilt so far (newer_pos is its length); failed names the first  *)
(* index out of range or assert_eq that did not hold.                      *)
(***************************************************************************)
applier_new == [older_pos |-> 0, fresh |-> <<>>, failed |-> "no"]

RECURSIVE apply_add(_, _, _, _, _)
apply_add(ap, add, i, older, newer) ==
    IF i >= Len(add) \/ ap.failed /= "no" THEN ap
    ELSE IF ~(ap.older_pos >= 0 /\ ap.older_pos < Len(older))
    THEN [ap EXCEPT !.failed = "older index"]
    ELSE IF ~(Len(ap.fresh) < Len(newer))
    THEN [ap EXCEPT !.failed = "newer index"]
    ELSE LET fb == wrapping_add(At(add, i), At(older, ap.older_pos))
         IN  apply_add([older_pos |-> ap.older_pos + 1,
                        fresh     |-> Append(ap.fresh, fb),
                        failed    |-> IF fb = At(newer, Len(ap.fresh)) THEN "no"
                                      ELSE "assert add"],
                       add, i + 1, older, newer)

RECURSIVE apply_copy(_, _, _, _)
apply_copy(ap, copy, i, newer) ==
    IF i >= Len(copy) \/ ap.failed /= "no" THEN ap
    ELSE IF ~(Len(ap.fresh) < Len(newer))
    THEN [ap EXCEPT !.failed = "newer index"]
    ELSE apply_copy([ap EXCEPT !.fresh = Append(ap.fresh, At(copy, i)),
                               !.failed = IF At(copy, i) = At(newer, Len(ap.fresh))
                                          THEN "no" ELSE "assert copy"],
                    copy, i + 1, newer)

\* The closure body: ADD, COPY, then older_pos += seek.
apply_control(ap, control, older, newer) ==
    LET a == apply_add(ap, control.add, 0, older, newer)
        c == apply_copy(a, control.copy, 0, newer)
    IN  IF c.failed /= "no" THEN c
        ELSE [c EXCEPT !.older_pos = c.older_pos + control.seek]

\* on_control applied to the Option of a Control.
apply_opt(ap, ctl, older, newer) ==
    IF IsSome(ctl) THEN apply_control(ap, Unwrap(ctl), older, newer) ELSE ap

(***************************************************************************)
(* The inputs Init draws.                                                  *)
(***************************************************************************)
\* The blocks old buffers are made of, and the tails that may follow them.
OldBlocks == {<<0, 0, 0, 0>>, <<1, 1, 1, 1>>}

Tails == {<<>>, <<0>>}

SeqsUpTo(S, n) == UNION {[1..k -> S] : k \in 0..n}

RECURSIVE Flatten(_)
Flatten(ss) == IF ss = <<>> THEN <<>> ELSE Head(ss) \o Flatten(Tail(ss))

Olders == {Flatten(bs) \o t : bs \in SeqsUpTo(OldBlocks, MaxOldBlocks), t \in Tails}

\* New buffers: every string over Alphabet up to MaxNew bytes, and every
\* concatenation of up to MaxPieces pieces (single bytes, and runs long
\* enough to be a significantly better match).
NewPieces == {<<0>>, <<1>>, <<0, 0, 0, 0, 1, 1, 1, 1, 0>>, <<1, 1, 1, 1, 0, 0, 0, 0, 1>>}

PieceNewers == {Flatten(ps) : ps \in SeqsUpTo(NewPieces, MaxPieces)}

Newers == SeqsUpTo(Alphabet, MaxNew) \cup PieceNewers

\* Inputs of the chunked (parallel) runs: new buffers of at most MaxParNew
\* bytes, so that a run has a handful of scan workers.
ParOlders == {<<>>, <<0, 0, 0, 0>>, <<0, 0, 0, 0, 1, 1, 1, 1, 0>>,
              <<1, 1, 1, 1, 0, 0, 0, 0, 1, 1, 1, 1, 0>>}

ParNewers == {n \in PieceNewers : Len(n) <= MaxParNew}

\* DiffParams::scan_chunk_size of the chunked runs.
ChunkSizes == {6, 10}

\* ring_channel::<Match>(8192)
RingCapacity == 8192

(***************************************************************************)
(* State of one run of diff feeding a Translator (assert_cycle_with_params):*)
(* diff (serial, or chunked with one scan worker per chunk feeding a ring  *)
(* channel) drives a Translator whose on_control closure applies every     *)
(* Control to older.  At close the callback may also be one that fails.    *)
(***************************************************************************)
VARIABLES
    obuf,       \* older
    nbuf,       \* newer
    params,     \* DiffParams: block_size, scan_chunk_size (an Option)
    index,      \* the HashIndex diff builds over obuf
    iters,      \* the BsdiffIterator of every scan, by chunk (0 when serial)
    emitted,    \* the Matches every iterator has yielded so far, by chunk
    rings,      \* the ring channel of every chunk: the Matches in flight
    wdone,      \* by chunk: the scan worker has dropped its RingProducer
    cons,       \* the chunk whose RingConsumer diff is draining
    seen,       \* the Matches on_match has received, in order
    tr,         \* the Translator
    controls,   \* the Controls on_control has received, in order
    sent,       \* the number of Controls the last Translator call delivered
    rets,       \* the results of the do_close calls so far ("ok" / "err")
    ap,         \* the applier: older_pos and the bytes rebuilt
    pc          \* diff | close | drop | end | panic_scan | panic_translate
                \* | panic_apply

\* The state of the other specifications of this module (the hash index
\* under population and lookup; the chunked patch pipeline).
VARIABLES
    ix,         \* the HashIndex being populated and looked up
    ins,        \* the insert tasks of the parallel populate, by block number
    lk,         \* the lookup in progress
    pt          \* the chunked patch pipeline: writer, reader and appliers

\* The state of the specifications of the single-stream patch, the ring
\* channel, the stepwise scan and the construction of DiffParams.
VARIABLES
    rd,         \* the single-stream patch: enc::Writer, then bipatch::Reader
    rg,         \* one ring channel with its producer and its consumer
    sc,         \* one BsdiffIterator stepped through the outer loop of next
    dp,         \* one call of DiffParams::with_threads
    cb          \* the results on_match has returned, in order, when it may fail

runVars == <<obuf, nbuf, params, index, iters, emitted, rings, wdone, cons, seen,
             tr, controls, sent, rets, ap, pc>>

indexVars == <<ix, ins, lk>>

extVars == <<rd, rg, sc, dp, cb>>

vars == <<runVars, indexVars, pt, extVars>>

\* What a specification leaves idle.
Idle == <<>>

ExtIdle == rd = Idle /\ rg = Idle /\ sc = Idle /\ dp = Idle /\ cb = Idle

inputVars == <<obuf, nbuf, params, index>>

scanVars == <<iters, emitted, rings, wdone, cons>>

IsChunked == IsSome(params.scan_chunk_size)

ChunkSize == Unwrap(params.scan_chunk_size)

\* nbuf.len().div_ceil(chunk_size)
NumChunks == div_ceil(Len(nbuf), ChunkSize)

\* The i-th slice of nbuf.par_chunks(chunk_size).
chunk_nbuf(buf, chunk_size, i) ==
    Slice(buf, i * chunk_size, Min((i + 1) * chunk_size, Len(buf)))

\* The scans of a run: chunk 0 alone when serial.
Scans == IF IsChunked THEN 0..(NumChunks - 1) ELSE {0}

\* The buffer scan i iterates over.
scan_nbuf(i) == IF IsChunked THEN chunk_nbuf(nbuf, ChunkSize, i) ELSE nbuf

\* A faulty shift, which moves the old position too.
shift_match_all(m, offset) ==
    [m EXCEPT !.add_new_start = @ + offset, !.copy_end = @ + offset,
              !.add_old_start = @ + offset]

\* m.add_new_start += offset; m.copy_end += offset (diff, chunked).
shift_match(m, offset) ==
    [m EXCEPT !.add_new_start = @ + offset, !.copy_end = @ + offset]

InitRun(o, n, bsz, chunk) ==
    LET k == IF IsSome(chunk) THEN div_ceil(Len(n), Unwrap(chunk)) ELSE 1
    IN  /\ obuf = o
        /\ nbuf = n
        /\ params = [block_size |-> bsz, scan_chunk_size |-> chunk]
        /\ index = new_index(o, bsz)
        /\ iters = [i \in 0..(k - 1) |-> iter_new]
        /\ emitted = [i \in 0..(k - 1) |-> <<>>]
        /\ rings = [i \in 0..(k - 1) |-> <<>>]
        /\ wdone = [i \in 0..(k - 1) |-> FALSE]
        /\ cons = 0
        /\ seen = <<>>
        /\ tr = translator_new
        /\ controls = <<>>
        /\ sent = 0
        /\ rets = <<>>
        /\ ap = applier_new
        /\ pc = "diff"

Init ==
    /\ \/ \E o \in Olders : \E n \in Newers : InitRun(o, n, BlockSize, None)
       \/ \E o \in ParOlders : \E n \in ParNewers : \E c \in ChunkSizes :
              InitRun(o, n, BlockSize, Some(c))
    /\ ix = Idle /\ ins = Idle /\ lk = Idle /\ pt = Idle
    /\ ExtIdle

\* on_match of assert_cycle_with_params: translator.translate(m), whose
\* on_control closure applies the Control and returns Ok.
OnMatch(m) ==
    LET t == translate(tr, m, obuf, nbuf, TRUE)
        a == apply_opt(ap, t.ctl, obuf, nbuf)
    IN  /\ seen' = Append(seen, m)
        /\ tr' = t.tr
        /\ controls' = controls \o t.ctl
        /\ sent' = Len(t.ctl)
        /\ ap' = a
        /\ pc' = IF t.panic THEN "panic_translate"
                 ELSE IF a.failed /= "no" THEN "panic_apply"
                 ELSE pc
        /\ UNCHANGED rets

\* diff, serial: one turn of `for m in BsdiffIterator::new(..) { on_match(m)? }`,
\* r being what the iterator's next returned.
SerialTurn(r) ==
    /\ iters' = [iters EXCEPT ![0] = r.it]
    /\ IF r.panic
       THEN /\ pc' = "panic_scan"
            /\ UNCHANGED <<emitted, seen, tr, controls, sent, rets, ap>>
       ELSE IF IsSome(r.out)
       THEN /\ emitted' = [emitted EXCEPT ![0] = Append(@, Unwrap(r.out))]
            /\ OnMatch(Unwrap(r.out))
       ELSE /\ pc' = "close"
            /\ UNCHANGED <<emitted, seen, tr, controls, sent, rets, ap>>

SerialStep ==
    /\ pc = "diff"
    /\ ~IsChunked
    /\ SerialTurn(next(iters[0], obuf, nbuf, index))
    /\ UNCHANGED <<inputVars, rings, wdone, cons, indexVars, pt, extVars>>

\* diff, chunked: one turn of a scan worker's `for m in BsdiffIterator::new(..)
\* { prod.push(m) }`; when the iterator ends the RingProducer is dropped.
WorkerTurn(i, r) ==
    /\ iters' = [iters EXCEPT ![i] = r.it]
    /\ IF r.panic
       THEN /\ pc' = "panic_scan"
            /\ UNCHANGED <<emitted, rings, wdone>>
       ELSE IF IsSome(r.out)
       THEN /\ emitted' = [emitted EXCEPT ![i] = Append(@, Unwrap(r.out))]
            /\ rings' = [rings EXCEPT ![i] = Append(@, Unwrap(r.out))]
            /\ UNCHANGED <<wdone, pc>>
       ELSE /\ wdone' = [wdone EXCEPT ![i] = TRUE]
            /\ UNCHANGED <<emitted, rings, pc>>

WorkerStep(i) ==
    /\ pc = "diff"
    /\ IsChunked
    /\ ~wdone[i]
    /\ Len(rings[i]) < RingCapacity
    /\ WorkerTurn(i, next(iters[i], obuf, scan_nbuf(i), index))
    /\ UNCHANGED <<inputVars, cons, seen, tr, controls, sent, rets, ap, indexVars, pt, extVars>>

\* diff, chunked: cons.pop() returned Some(m): shift it by the chunk's origin
\* and hand it to on_match.
ConsumerPop ==
    /\ pc = "diff"
    /\ IsChunked
    /\ cons < NumChunks
    /\ rings[cons] /= <<>>
    /\ OnMatch(shift_match(Head(rings[cons]), cons * ChunkSize))
    /\ rings' = [rings EXCEPT ![cons] = Tail(@)]
    /\ UNCHANGED <<inputVars, iters, emitted, wdone, cons, indexVars, pt, extVars>>

\* diff, chunked: cons.pop() returned None (producer dropped, ring empty):
\* the for loop moves to the next chunk's consumer.
ConsumerNext ==
    /\ pc = "diff"
    /\ IsChunked
    /\ cons < NumChunks
    /\ rings[cons] = <<>>
    /\ wdone[cons]
    /\ cons' = cons + 1
    /\ UNCHANGED <<inputVars, iters, emitted, rings, wdone, seen, tr, controls,
                   sent, rets, ap, pc, indexVars, pt, extVars>>

\* diff, chunked: every consumer is drained and the scope has joined the
\* scan thread; diff returns Ok.
DiffReturn ==
    /\ pc = "diff"
    /\ IsChunked
    /\ cons = NumChunks
    /\ \A i \in Scans : wdone[i]
    /\ pc' = "close"
    /\ UNCHANGED <<inputVars, scanVars, seen, tr, controls, sent, rets, ap,
                   indexVars, pt, extVars>>

\* One do_close: the one of translator.close() (pc = close) or the one Drop
\* runs when close lets go of the Translator (pc = drop).  cb_ok is what
\* on_control returns if it is called; a callback that fails applies nothing.
DoClose(from, to, cb_ok) ==
    /\ pc = from
    /\ LET t == do_close(tr, nbuf, cb_ok)
           a == IF cb_ok THEN apply_opt(ap, t.ctl, obuf, nbuf) ELSE ap
       IN  /\ tr' = t.tr
           /\ controls' = controls \o t.ctl
           /\ sent' = Len(t.ctl)
           /\ rets' = Append(rets, IF t.ok THEN "ok" ELSE "err")
           /\ ap' = a
           /\ pc' = IF t.panic THEN "panic_translate"
                    ELSE IF a.failed /= "no" THEN "panic_apply"
                    ELSE to
    /\ UNCHANGED <<inputVars, scanVars, seen, indexVars, pt, extVars>>

\* translator.close()
Close == \E cb_ok \in BOOLEAN : DoClose("close", "drop", cb_ok)

\* Drop for Translator: do_close once more, its result ignored.
Drop == \E cb_ok \in BOOLEAN : DoClose("drop", "end", cb_ok)

Next ==
    \/ SerialStep
    \/ \E i \in Scans : WorkerStep(i)
    \/ ConsumerPop
    \/ ConsumerNext
    \/ DiffReturn
    \/ Close
    \/ Drop

Spec == Init /\ [][Next]_vars

(***************************************************************************)
(* Properties of a run (specification Spec).                               *)
(***************************************************************************)
Panics == {"panic_scan", "panic_translate", "panic_apply"}

\* The scan of chunk i has ended (its iterator returned None).
ScanEnded(i) == IF IsChunked THEN wdone[i] ELSE pc \in {"close", "drop", "end"}

\* diff has returned Ok.
DiffDone == pc \in {"close", "drop", "end"}

\* translator.close() has returned Ok.
ClosedOk == pc \in {"drop", "end"} /\ rets[1] = "ok"

RECURSIVE SumCover(_)
SumCover(ms) ==
    IF ms = <<>> THEN 0
    ELSE (Head(ms).copy_end - Head(ms).add_new_start) + SumCover(Tail(ms))

IsEmptyMatch(m) == m.add_length = 0 /\ m.copy_end = m.add_new_start

\* C1: round trip.  No step of diff, the Translator or the applier panics or
\* fails an assertion, and once close has returned Ok the bytes the applier
\* has rebuilt from older and the Controls are exactly newer.
C1_RoundTrip ==
    /\ pc \notin Panics
    /\ ClosedOk => (ap.fresh = nbuf /\ ap.failed = "no")

C1_Witness ==
    /\ pc = "end"
    /\ rets = <<"ok", "ok">>
    /\ Len(controls) >= 3
    /\ ap.fresh = nbuf
    /\ \E i \in 1..Len(controls) : controls[i].seek < 0
    /\ \E i \in 1..Len(controls) : \E j \in 1..Len(controls[i].add) :
           controls[i].add[j] /= 0

\* C2: cover.  The Matches one scan has emitted are contiguous
\* (prev.copy_end = next.add_new_start) and start at 0; once the scan has
\* ended their lengths copy_end - add_new_start sum to the length of the
\* scanned buffer; a scan of an empty buffer emits nothing.
C2_Cover ==
    \A i \in DOMAIN emitted :
        /\ \A k \in 1..(Len(emitted[i]) - 1) :
               emitted[i][k].copy_end = emitted[i][k + 1].add_new_start
        /\ (emitted[i] /= <<>> => emitted[i][1].add_new_start = 0)
        /\ (ScanEnded(i) => SumCover(emitted[i]) = Len(scan_nbuf(i)))
        /\ (Len(scan_nbuf(i)) = 0 => emitted[i] = <<>>)

C2_Witness ==
    /\ ~IsChunked
    /\ pc = "close"
    /\ Len(emitted[0]) >= 3
    /\ SumCover(emitted[0]) = Len(nbuf)
    /\ \E k \in 1..Len(emitted[0]) :
           emitted[0][k].copy_end > emitted[0][k].add_new_start + emitted[0][k].add_length

\* The bounds of a Match m over the old buffer o and the new buffer n.
MatchInBounds(m, o, n) ==
    /\ m.add_old_start >= 0 /\ m.add_new_start >= 0 /\ m.add_length >= 0
    /\ m.add_new_start + m.add_length <= m.copy_end
    /\ m.copy_end <= Len(n)
    /\ m.add_old_start + m.add_length <= Len(o)

\* C3: bounds.  Every Match a scan emits, and every Match handed to
\* on_match, has add_new_start + add_length <= copy_end <= |newer| and
\* add_old_start + add_length <= |older|, and translate never slices obuf or
\* nbuf out of range.
C3_Bounds ==
    /\ \A i \in DOMAIN emitted : \A k \in 1..Len(emitted[i]) :
           MatchInBounds(emitted[i][k], obuf, scan_nbuf(i))
    /\ \A k \in 1..Len(seen) : MatchInBounds(seen[k], obuf, nbuf)
    /\ pc /= "panic_translate"

C3_Witness ==
    /\ DiffDone
    /\ Len(seen) >= 2
    /\ \E k \in 1..Len(seen) :
           /\ seen[k].add_length > 0
           /\ seen[k].add_old_start + seen[k].add_length = Len(obuf)
           /\ seen[k].copy_end = Len(nbuf)
           /\ seen[k].add_new_start + seen[k].add_length < seen[k].copy_end

\* C4 as claimed: within one scan, every Match starts in nbuf strictly after
\* the Match before it.
C4_StrictlyIncreasing ==
    \A i \in DOMAIN emitted : \A k \in 1..(Len(emitted[i]) - 1) :
        emitted[i][k + 1].add_new_start > emitted[i][k].add_new_start

\* C4 as amended: within one scan add_new_start never decreases, and it
\* strictly increases after every Match that is not empty (an empty Match
\* has add_length = 0 and copy_end = add_new_start).
C4_NonDecreasing ==
    \A i \in DOMAIN emitted : \A k \in 1..(Len(emitted[i]) - 1) :
        /\ emitted[i][k + 1].add_new_start >= emitted[i][k].add_new_start
        /\ (emitted[i][k + 1].add_new_start = emitted[i][k].add_new_start
                => IsEmptyMatch(emitted[i][k]))

C4_Witness ==
    /\ ~IsChunked
    /\ Len(emitted[0]) >= 3
    /\ IsEmptyMatch(emitted[0][1])
    /\ emitted[0][2].add_new_start = emitted[0][1].add_new_start
    /\ emitted[0][3].add_new_start > emitted[0][2].add_new_start

\* The ADD bytes the claim gives for the Match m.
DeltaOf(m) ==
    [j \in 1..m.add_length |->
        (nbuf[m.add_new_start + j] - obuf[m.add_old_start + j]) % 256]

\* C5: Translator output mapping.  The i-th Control on_control receives
\* belongs to the i-th Match translate received: add is the bytewise
\* difference new - old mod 256 over the ADD range, copy is
\* nbuf[add_new_start + add_length .. copy_end], seek is the distance from
\* the end of this Match's old range to the next Match's add_old_start, and
\* 0 for the last Match; k Matches followed by close give exactly k Controls.
C5_Mapping ==
    /\ Len(controls) <= Len(seen)
    /\ \A i \in 1..Len(controls) :
           /\ controls[i].add = DeltaOf(seen[i])
           /\ controls[i].copy =
                  SubSeq(nbuf, seen[i].add_new_start + seen[i].add_length + 1,
                         seen[i].copy_end)
           /\ controls[i].seek =
                  IF i < Len(seen)
                  THEN seen[i + 1].add_old_start
                       - (seen[i].add_old_start + seen[i].add_length)
                  ELSE 0
    /\ (pc = "diff" /\ seen /= <<>> => Len(controls) = Len(seen) - 1)
    /\ (pc \in {"drop", "end"} => Len(controls) = Len(seen))

C5_Witness ==
    /\ pc = "drop"
    /\ Len(seen) >= 3
    /\ Len(controls) = Len(seen)
    /\ controls[Len(controls)].seek = 0
    /\ \E i \in 1..Len(controls) : controls[i].seek < 0
    /\ \E i \in 1..Len(controls) : controls[i].seek > 0
    /\ \E i \in 1..Len(controls) : \E j \in 1..Len(controls[i].add) :
           controls[i].add[j] = 255

\* C6: idempotent close.  When close has returned Ok, the do_close that Drop
\* runs afterwards calls on_control zero times and returns Ok; and whatever
\* the callbacks return, no Match has its Control delivered twice, so the
\* final Control (seek 0) is delivered at most once.
C6_IdempotentClose ==
    /\ Len(controls) <= Len(seen)
    /\ (pc = "end" /\ rets[1] = "ok") => (sent = 0 /\ rets[2] = "ok")
    /\ (pc = "end" /\ rets[1] = "err") => sent = 0

C6_Witness ==
    /\ pc = "end"
    /\ rets = <<"ok", "ok">>
    /\ tr.closed
    /\ sent = 0
    /\ Len(seen) >= 2
    /\ Len(controls) = Len(seen)
    /\ controls[Len(controls)].seek = 0

\* The Matches chunk i has emitted, in nbuf positions as the claim gives them.
ShiftedBy(ms, d) ==
    [k \in 1..Len(ms) |->
        [add_old_start |-> ms[k].add_old_start,
         add_new_start |-> ms[k].add_new_start + d,
         add_length    |-> ms[k].add_length,
         copy_end      |-> ms[k].copy_end + d]]

\* Chunks 0 .. n-1, each drained to completion, in chunk order.
RECURSIVE DrainedChunks(_)
DrainedChunks(n) ==
    IF n = 0 THEN <<>>
    ELSE DrainedChunks(n - 1) \o ShiftedBy(emitted[n - 1], (n - 1) * ChunkSize)

\* The Matches of the chunk being drained that on_match has taken.
TakenOfCurrent ==
    IF cons < NumChunks
    THEN SubSeq(ShiftedBy(emitted[cons], cons * ChunkSize), 1,
                Len(emitted[cons]) - Len(rings[cons]))
    ELSE <<>>

\* C8: parallel mode.  Whatever the interleaving of the scan workers, what
\* on_match has seen is the chunks' Match sequences in chunk order, every
\* chunk before the current one drained to completion, with add_new_start
\* and copy_end shifted by i * c and add_old_start as emitted; the sequence
\* is contiguous, non-decreasing in nbuf positions, starts at 0 and, when
\* diff returns, ends at |nbuf|.
C8_ParallelOrder ==
    IsChunked =>
        /\ seen = DrainedChunks(cons) \o TakenOfCurrent
        /\ \A i \in 0..(cons - 1) : wdone[i] /\ rings[i] = <<>>
        /\ \A k \in 1..(Len(seen) - 1) :
               /\ seen[k].copy_end = seen[k + 1].add_new_start
               /\ seen[k].add_new_start <= seen[k + 1].add_new_start
        /\ (seen /= <<>> => seen[1].add_new_start = 0)
        /\ (DiffDone => SumCover(seen) = Len(nbuf))

C8_Witness ==
    /\ IsChunked
    /\ pc = "close"
    /\ NumChunks >= 2
    /\ \E i \in Scans : Len(emitted[i]) >= 2
    /\ Len(emitted[1]) >= 1
    /\ emitted[1][1].add_length > 0
    /\ seen[Len(seen)].copy_end = Len(nbuf)

\* A worker that ran ahead of the consumer: Matches wait in a later ring.
C8_WorkerAhead ==
    /\ IsChunked
    /\ pc = "diff"
    /\ cons = 0
    /\ NumChunks >= 2
    /\ rings[1] /= <<>>
    /\ ~wdone[0]

(***************************************************************************)
(* The hash index under population and lookup (specification IndexSpec).   *)
(* With the feature "parallel" populate runs one insert task per block,    *)
(* every table.get and table.cas of a task being one step; without it      *)
(* populate is the serial path, run to completion before any lookup.  A    *)
(* lookup runs one table.get per step and may start at any time.           *)
(***************************************************************************)
MaxIxBlocks == 3

MaxLookups == 2

IxTexts == {Flatten(bs) \o t : bs \in SeqsUpTo(OldBlocks, MaxIxBlocks), t \in Tails}

\* A text of 5 * BUCKET_SIZE + 1 distinct blocks whose hashes all fall in
\* bucket 0 of its 16 buckets: block k is <<a, CrowdedBase[a + 1] + 16 * r, 0, 0>>
\* with a = k \div 4 and r = k % 4.
CrowdedBase == <<15, 12, 5, 2, 3, 0, 9, 6, 7, 4, 13>>

CrowdedBlocks == 5 * BUCKET_SIZE + 1

RECURSIVE CrowdedFrom(_)
CrowdedFrom(k) ==
    IF k >= CrowdedBlocks THEN <<>>
    ELSE <<k \div 4, CrowdedBase[(k \div 4) + 1] + 16 * (k % 4), 0, 0>>
         \o CrowdedFrom(k + 1)

CrowdedText == CrowdedFrom(0)

\* A text of BUCKET_SIZE + 1 distinct blocks whose hashes all fall in the
\* last of its 4 buckets: the block inserted last overflows into bucket 0.
WrapText ==
    <<0, 2, 0, 0, 1, 1, 0, 0, 2, 0, 0, 0, 3, 3, 0, 0, 4, 2, 0, 0, 5, 1, 0, 0,
      6, 0, 0, 0, 7, 3, 0, 0, 8, 2, 0, 0>>

FixedNeedles == {<<1, 1, 1>>, <<0, 0, 0, 0>>, <<0, 0, 0, 0, 1, 0>>, <<1, 1, 1, 1, 0>>,
                 <<0, 0, 0, 0, 0, 0, 0, 0, 1>>, <<0, 1, 0, 1>>}

\* The needles looked up in text: the fixed ones, and the first, the second
\* and the last indexed block of text.
NeedlesOf(text, block_size) ==
    FixedNeedles
    \cup (IF Len(text) >= block_size
          THEN {BlockAt(text, 0, block_size),
                BlockAt(text, ((Len(text) \div block_size) - 1) * block_size, block_size)}
          ELSE {})
    \cup (IF Len(text) >= 2 * block_size
          THEN {BlockAt(text, block_size, block_size)}
          ELSE {})

\* MmapTable::get
table_get(table, slot) == table[slot + 1]

\* MmapTable::cas: compare_exchange(expected, new)
cas(table, slot, expected, new) ==
    IF table[slot + 1] = expected
    THEN [ok |-> TRUE, table |-> [table EXCEPT ![slot + 1] = new], existing |-> expected]
    ELSE [ok |-> FALSE, table |-> table, existing |-> table[slot + 1]]

\* The closure of populate's for_each for block n, before its first table.get.
task_new(idx, n) ==
    [offset   |-> n * idx.block_size,
     h        |-> hash_block(BlockAt(idx.text, n * idx.block_size, idx.block_size)),
     bucket   |-> hash_bucket(hash_block(BlockAt(idx.text, n * idx.block_size,
                                                 idx.block_size)), idx.mask),
     i        |-> 0,
     pc       |-> "get",
     expected |-> EMPTY]

task_slot(t) == t.bucket * BUCKET_SIZE + t.i

task_packed(t) == pack_entry(t.offset, t.h)

\* entry_tag(existing) == needle_tag && text[existing_off..][..block_size] == block
is_duplicate(idx, t, existing) ==
    /\ entry_tag(existing) = hash_tag(t.h)
    /\ BlockAt(idx.text, entry_offset(existing), idx.block_size)
           = BlockAt(idx.text, t.offset, idx.block_size)

\* The next slot of the for loop, or slot 0 of the next bucket.
task_advance(idx, t) ==
    IF t.i + 1 < BUCKET_SIZE THEN [t EXCEPT !.i = @ + 1, !.pc = "get"]
    ELSE [t EXCEPT !.bucket = (@ + 1) % (idx.mask + 1), !.i = 0, !.pc = "get"]

\* The task has seen the non-EMPTY entry `existing` in its slot: a duplicate
\* ends the task, after a CAS if the task's offset is the smaller one.
task_seen(idx, t, existing) ==
    IF is_duplicate(idx, t, existing)
    THEN IF t.offset < entry_offset(existing)
         THEN [t EXCEPT !.pc = "replace", !.expected = existing]
         ELSE [t EXCEPT !.pc = "done"]
    ELSE task_advance(idx, t)

lookup_idle(n) ==
    [pc |-> "idle", needle |-> <<>>, h |-> <<0, 0, 0, 0, 0, 0, 0, 0>>,
     p |-> [bucket |-> 0, i |-> 0, probes |-> 0], out |-> NoMatch, quiet |-> FALSE,
     n |-> n]

\* Every insert task has returned (none exist on the serial path).
Quiescent == \A n \in DOMAIN ins : ins[n].pc = "done"

RunIdle ==
    /\ obuf = <<>> /\ nbuf = <<>>
    /\ params = [block_size |-> BlockSize, scan_chunk_size |-> None]
    /\ index = Idle /\ iters = Idle /\ emitted = Idle /\ rings = Idle /\ wdone = Idle
    /\ cons = 0 /\ seen = <<>> /\ tr = translator_new /\ controls = <<>> /\ sent = 0
    /\ rets = <<>> /\ ap = applier_new /\ pc = "idle"

InitIndex(text, parallel) ==
    /\ ix = IF parallel THEN new_empty(text, BlockSize) ELSE new_index(text, BlockSize)
    /\ ins = IF parallel
             THEN [n \in 1..(Len(text) \div BlockSize) |->
                      task_new(new_empty(text, BlockSize), n - 1)]
             ELSE <<>>
    /\ lk = lookup_idle(0)

IndexInit ==
    /\ \/ \E text \in IxTexts : \E parallel \in BOOLEAN : InitIndex(text, parallel)
       \/ InitIndex(CrowdedText, FALSE)
       \/ InitIndex(WrapText, FALSE)
    /\ RunIdle
    /\ pt = Idle
    /\ ExtIdle

\* let entry = self.table.get(slot)
InsertGet(n) ==
    /\ ins[n].pc = "get"
    /\ ins' = [ins EXCEPT ![n] =
                  IF table_get(ix.table, task_slot(@)) = EMPTY
                  THEN [@ EXCEPT !.pc = "claim"]
                  ELSE task_seen(ix, @, table_get(ix.table, task_slot(@)))]
    /\ UNCHANGED <<ix, lk, runVars, pt, extVars>>

CasClaimTurn(n, c) ==
    /\ ix' = [ix EXCEPT !.table = c.table]
    /\ ins' = [ins EXCEPT ![n] =
                  IF c.ok THEN [@ EXCEPT !.pc = "done"] ELSE task_seen(ix, @, c.existing)]

\* match self.table.cas(slot, EMPTY, packed)
InsertCasClaim(n) ==
    /\ ins[n].pc = "claim"
    /\ CasClaimTurn(n, cas(ix.table, task_slot(ins[n]), EMPTY, task_packed(ins[n])))
    /\ UNCHANGED <<lk, runVars, pt, extVars>>

\* let _ = self.table.cas(slot, existing, packed); return
InsertCasReplace(n) ==
    /\ ins[n].pc = "replace"
    /\ ix' = [ix EXCEPT !.table =
                 cas(@, task_slot(ins[n]), ins[n].expected, task_packed(ins[n])).table]
    /\ ins' = [ins EXCEPT ![n] = [@ EXCEPT !.pc = "done"]]
    /\ UNCHANGED <<lk, runVars, pt, extVars>>

\* longest_substring_match(needle) up to the first table.get of its lookup.
LookupStart(needle) ==
    /\ lk.pc = "idle"
    /\ lk.n < MaxLookups
    /\ lk' = IF Len(needle) < ix.block_size \/ Len(ix.text) < ix.block_size
             THEN [lk EXCEPT !.pc = "done", !.needle = needle, !.out = NoMatch,
                             !.quiet = Quiescent]
             ELSE [lk EXCEPT !.pc = "probe", !.needle = needle,
                             !.h = hash_block(Slice(needle, 0, ix.block_size)),
                             !.p = probe_start(ix, hash_block(Slice(needle, 0,
                                                                    ix.block_size))),
                             !.quiet = Quiescent]
    /\ UNCHANGED <<ix, ins, runVars, pt, extVars>>

ProbeTurn(r) ==
    lk' = IF r.done
          THEN [lk EXCEPT !.pc = "done",
                          !.out = extend_match(ix, lk.needle,
                                               [res |-> r.res, panic |-> r.panic])]
          ELSE [lk EXCEPT !.p = r.p]

\* One turn of the slot loop of lookup_with_hash; when the lookup returns,
\* longest_substring_match extends the hit.
LookupProbe ==
    /\ lk.pc = "probe"
    /\ ProbeTurn(lookup_slot(ix, Slice(lk.needle, 0, ix.block_size), lk.h, lk.p,
                             table_get(ix.table, lk.p.bucket * BUCKET_SIZE + lk.p.i)))
    /\ UNCHANGED <<ix, ins, runVars, pt, extVars>>

\* The caller has taken the result.
LookupReturn ==
    /\ lk.pc = "done"
    /\ lk' = lookup_idle(lk.n + 1)
    /\ UNCHANGED <<ix, ins, runVars, pt, extVars>>

IndexNext ==
    \/ \E n \in DOMAIN ins : InsertGet(n)
    \/ \E n \in DOMAIN ins : InsertCasClaim(n)
    \/ \E n \in DOMAIN ins : InsertCasReplace(n)
    \/ \E needle \in NeedlesOf(ix.text, ix.block_size) : LookupStart(needle)
    \/ LookupProbe
    \/ LookupReturn

IndexSpec == IndexInit /\ [][IndexNext]_vars

(***************************************************************************)
(* Properties of the hash index (specification IndexSpec).                 *)
(***************************************************************************)
\* Some block-aligned block of text equals block.
Indexed(text, block_size, block) ==
    \E k \in 0..((Len(text) \div block_size) - 1) :
        BlockAt(text, k * block_size, block_size) = block

\* The cases in which the claims give (0, 0).
MustMiss(text, block_size, needle) ==
    \/ Len(needle) < block_size
    \/ Len(text) < block_size
    \/ ~Indexed(text, block_size, Slice(needle, 0, block_size))

\* text[start .. start + len] == needle[.. len]
Agrees(text, needle, out) ==
    /\ SliceOK(text, out.start, out.start + out.len)
    /\ SliceOK(needle, 0, out.len)
    /\ Slice(text, out.start, out.start + out.len) = Slice(needle, 0, out.len)

\* What the claims give for a hit.
HitContract(text, block_size, needle, out) ==
    /\ out.start % block_size = 0
    /\ out.len >= block_size
    /\ out.len <= Len(needle)
    /\ out.start + out.len <= Len(text)
    /\ Agrees(text, needle, out)
    /\ \/ out.len = Len(needle)
       \/ out.start + out.len = Len(text)
       \/ At(text, out.start + out.len) /= At(needle, out.len)

\* C9: lookups concurrent with population are never wrong.  Whatever the
\* interleaving of the insert tasks' get, CAS claim and CAS replace with a
\* lookup's probes, the lookup does not panic, a hit (len > 0) has
\* text[start .. start + len] == needle[.. len], and a result without a hit
\* is (0, 0).
C9_NeverWrong ==
    lk.pc = "done" =>
        /\ ~lk.out.panic
        /\ (lk.out.len > 0 => Agrees(ix.text, lk.needle, lk.out))
        /\ (lk.out.len > 0 =>
                BlockAt(ix.text, lk.out.start, ix.block_size)
                    = Slice(lk.needle, 0, ix.block_size))
        /\ (lk.out.len = 0 => lk.out.start = 0)

\* A hit longer than a block, returned while an insert task is between its
\* get and its CAS.
C9_Witness ==
    /\ lk.pc = "done"
    /\ ~lk.quiet
    /\ lk.out.len > ix.block_size
    /\ \E n \in DOMAIN ins : ins[n].pc \in {"claim", "replace"}

\* A lookup that missed a block of the text which was inserted afterwards.
C9_MissedThenInserted ==
    /\ lk.pc = "done"
    /\ ~lk.quiet
    /\ Quiescent
    /\ lk.out = NoMatch
    /\ ~MustMiss(ix.text, ix.block_size, lk.needle)

\* C10 as claimed: on a populated index longest_substring_match returns
\* (0, 0) when the needle or the text is shorter than a block or no indexed
\* block equals the needle's first block, and otherwise a hit with the
\* properties of HitContract.
C10_AsClaimed ==
    (lk.pc = "done" /\ lk.quiet) =>
        /\ ~lk.out.panic
        /\ IF MustMiss(ix.text, ix.block_size, lk.needle)
           THEN lk.out = NoMatch
           ELSE HitContract(ix.text, ix.block_size, lk.needle, lk.out)

\* C10 as amended: (0, 0) in the three cases of the claim; otherwise a hit
\* with the properties of HitContract, or, only when the text has more than
\* 5 * BUCKET_SIZE blocks (the buckets a lookup probes before it gives up
\* hold that many), (0, 0).
C10_ResultContract ==
    (lk.pc = "done" /\ lk.quiet) =>
        /\ ~lk.out.panic
        /\ IF MustMiss(ix.text, ix.block_size, lk.needle)
           THEN lk.out = NoMatch
           ELSE \/ HitContract(ix.text, ix.block_size, lk.needle, lk.out)
                \/ /\ lk.out = NoMatch
                   /\ Len(ix.text) \div ix.block_size > 5 * BUCKET_SIZE

\* A hit inside the text that ends at a mismatch, on an index populated by
\* the insert tasks.
C10_Witness ==
    /\ lk.pc = "done"
    /\ lk.quiet
    /\ ins /= <<>>
    /\ lk.out.start > 0
    /\ lk.out.len > ix.block_size
    /\ lk.out.len < Len(lk.needle)
    /\ lk.out.start + lk.out.len < Len(ix.text)

\* The lookup of an indexed block that gives up at the probe cap.
C10_MissedBeyondCap ==
    /\ lk.pc = "done"
    /\ lk.quiet
    /\ lk.out = NoMatch
    /\ lk.p.probes = 4
    /\ ~MustMiss(ix.text, ix.block_size, lk.needle)

\* A hit in the last bucket a lookup probes.
C10_HitInLastBucket ==
    /\ lk.pc = "done"
    /\ lk.quiet
    /\ lk.out.len > 0
    /\ lk.p.probes = 4

(***************************************************************************)
(* The chunked patch: simple_diff_chunked_with_params writes it, read_patch *)
(* parses it, apply_chunk applies one chunk.                               *)
(***************************************************************************)
MAGIC == 45535

VERSION == 8192

\* v.to_le_bytes() of an unsigned of n bytes.
RECURSIVE to_le_bytes(_, _)
to_le_bytes(v, n) ==
    IF n = 0 THEN <<>> ELSE <<v % 256>> \o to_le_bytes(v \div 256, n - 1)

\* u32::from_le_bytes / u64::from_le_bytes
RECURSIVE from_le_bytes(_)
from_le_bytes(bs) ==
    IF bs = <<>> THEN 0 ELSE Head(bs) + 256 * from_le_bytes(Tail(bs))

\* write_varint of an unsigned: 7 bits per byte, low group first, the top
\* bit set on every byte but the last.
RECURSIVE encode_var(_)
encode_var(v) ==
    IF v < 128 THEN <<v>> ELSE <<128 + (v % 128)>> \o encode_var(v \div 128)

\* The zig-zag form write_varint gives a signed value.
zigzag(n) == IF n >= 0 THEN 2 * n ELSE (-2 * n) - 1

\* The signed value decode_var reads from the zig-zag form.
unzigzag(u) == IF u % 2 = 0 THEN u \div 2 ELSE -((u + 1) \div 2)

\* decode_var on data[pos..]: None when the bytes end before a byte without
\* the top bit, else the value and the position after it.
RECURSIVE decode_var_from(_, _, _, _)
decode_var_from(data, pos, mult, acc) ==
    IF pos >= Len(data) THEN None
    ELSE IF At(data, pos) < 128
    THEN Some([val |-> acc + At(data, pos) * mult, pos |-> pos + 1])
    ELSE decode_var_from(data, pos + 1, mult * 128, acc + (At(data, pos) - 128) * mult)

\* patch.rs read_varint_slice::<usize>
read_varint_slice(data, pos) ==
    IF pos >= Len(data) THEN None ELSE decode_var_from(data, pos, 1, 0)

\* enc::Writer::write_extended: the bytes it writes for the Control c.
write_extended(c, copy_old) ==
    (IF \A j \in 1..Len(c.add) : c.add[j] = 0
     THEN encode_var(Len(c.add) * 2 + 1)
     ELSE encode_var(Len(c.add) * 2) \o c.add)
    \o (IF copy_old = None
        THEN encode_var(Len(c.copy) * 2) \o c.copy
        ELSE encode_var(Len(c.copy) * 2 + 1) \o encode_var(Unwrap(copy_old)))
    \o encode_var(zigzag(c.seek))

\* The on_control closure of a chunk, given the Option of a Control.
write_opt(ctl) == IF IsSome(ctl) THEN write_extended(Unwrap(ctl), None) ELSE <<>>

\* The bytes in the sub-patch buffer when its Writer has been made: the
\* sub-patch is the single-stream layout without a header.
sub_patch_new == <<>>

\* zstd::bulk::compress, lossless: a frame that records the content size.
zstd_compress(data) == encode_var(Len(data)) \o data

\* zstd::bulk::decompress(data, capacity): fails when the frame is damaged
\* or its content is larger than capacity.
zstd_decompress(frame, capacity) ==
    IF read_varint_slice(frame, 0) = None
    THEN [ok |-> FALSE, data |-> <<>>]
    ELSE IF Unwrap(read_varint_slice(frame, 0)).val > capacity
            \/ Unwrap(read_varint_slice(frame, 0)).pos
               + Unwrap(read_varint_slice(frame, 0)).val /= Len(frame)
    THEN [ok |-> FALSE, data |-> <<>>]
    ELSE [ok |-> TRUE,
          data |-> Slice(frame, Unwrap(read_varint_slice(frame, 0)).pos, Len(frame))]

\* The header simple_diff_chunked_with_params writes.
patch_header(newer, scan_chunk_size) ==
    to_le_bytes(MAGIC, 4) \o to_le_bytes(VERSION, 4) \o to_le_bytes(Len(newer), 8)
    \o to_le_bytes(IF Len(newer) = 0 THEN 1
                   ELSE div_ceil(Len(newer),
                                 IF IsSome(scan_chunk_size) THEN Unwrap(scan_chunk_size)
                                 ELSE Max(Len(newer), 1)), 4)

\* scan_chunk_size.unwrap_or(newer.len().max(1))
patch_chunk_size(newer, scan_chunk_size) ==
    IF IsSome(scan_chunk_size) THEN Unwrap(scan_chunk_size) ELSE Max(Len(newer), 1)

\* The number of times diff_chunked calls on_chunk.
on_chunk_calls(newer, scan_chunk_size) ==
    IF IsSome(scan_chunk_size) THEN div_ceil(Len(newer), Unwrap(scan_chunk_size)) ELSE 1

\* The chunk record written after the sub-patch sub has been collected.
chunk_record(first_old_start, new_start, new_len, sub) ==
    to_le_bytes(first_old_start, 8) \o to_le_bytes(new_start, 8)
    \o to_le_bytes(new_len, 8) \o to_le_bytes(Len(sub), 8)
    \o to_le_bytes(Len(zstd_compress(sub)), 8) \o zstd_compress(sub)

\* The while loop of the on_chunk closure and translator.close(): the
\* sub-patch bytes, and whether a call panicked.
RECURSIVE on_chunk_loop(_, _, _, _, _)
on_chunk_turn(t, rest, older, chunk, sub) ==
    IF t.panic THEN [sub |-> sub, panic |-> TRUE]
    ELSE on_chunk_loop(t.tr, rest, older, chunk, sub \o write_opt(t.ctl))

on_chunk_close(t, sub) == [sub |-> sub \o write_opt(t.ctl), panic |-> t.panic]

on_chunk_loop(t, ms, older, chunk, sub) ==
    IF ms = <<>> THEN on_chunk_close(do_close(t, chunk, TRUE), sub)
    ELSE on_chunk_turn(translate(t, Head(ms), older, chunk, TRUE), Tail(ms),
                       older, chunk, sub)

\* The on_chunk closure for chunk i, whose scan yields the Matches ms: the
\* bytes it appends to the patch.
on_chunk_bytes(i, chunk_size, chunk, ms, r) ==
    [bytes |-> chunk_record(IF ms = <<>> THEN 0 ELSE Head(ms).add_old_start,
                            i * chunk_size, Len(chunk), r.sub),
     panic |-> r.panic]

on_chunk(i, chunk_size, older, chunk, ms) ==
    on_chunk_bytes(i, chunk_size, chunk, ms,
                   on_chunk_loop(translator_new, ms, older, chunk, sub_patch_new))

\* get_u32_le / get_u64_le: None when fewer than n bytes remain.
get_le(data, off, n) ==
    IF off + n > Len(data) THEN None
    ELSE Some([val |-> from_le_bytes(Slice(data, off, off + n)), off |-> off + n])

\* `left` u64 fields from offset off, None when the patch ends early.
RECURSIVE get_fields(_, _, _, _)
get_fields(data, off, left, acc) ==
    IF left = 0 THEN Some([vals |-> acc, off |-> off])
    ELSE IF get_le(data, off, 8) = None THEN None
    ELSE get_fields(data, off + 8, left - 1, Append(acc, Unwrap(get_le(data, off, 8)).val))

\* The ChunkRef of the fields f, None when its data runs past the patch.
chunk_ref(data, f) ==
    IF f.off + f.vals[5] > Len(data) THEN None
    ELSE Some([old_start |-> f.vals[1], new_start |-> f.vals[2], new_len |-> f.vals[3],
               raw_len |-> f.vals[4], data |-> Slice(data, f.off, f.off + f.vals[5]),
               end |-> f.off + f.vals[5]])

\* The for loop of read_patch: `left` chunk records remain from offset off.
RECURSIVE read_chunks(_, _, _, _)
read_chunk_at(data, f, left, acc) ==
    IF f = None THEN [err |-> "eof", chunks |-> acc]
    ELSE IF chunk_ref(data, Unwrap(f)) = None THEN [err |-> "eof", chunks |-> acc]
    ELSE read_chunks(data, Unwrap(chunk_ref(data, Unwrap(f))).end, left - 1,
                     Append(acc, Unwrap(chunk_ref(data, Unwrap(f)))))

read_chunks(data, off, left, acc) ==
    IF left = 0 THEN [err |-> "none", chunks |-> acc]
    ELSE read_chunk_at(data, get_fields(data, off, 5, <<>>), left, acc)

read_failed(e) == [err |-> e, new_size |-> 0, chunks |-> <<>>]

\* patch::read_patch
read_patch(data) ==
    IF get_le(data, 0, 4) = None THEN read_failed("eof")
    ELSE IF Unwrap(get_le(data, 0, 4)).val /= MAGIC THEN read_failed("magic")
    ELSE IF get_le(data, 4, 4) = None THEN read_failed("eof")
    ELSE IF Unwrap(get_le(data, 4, 4)).val /= VERSION THEN read_failed("version")
    ELSE IF get_le(data, 8, 8) = None \/ get_le(data, 16, 4) = None
    THEN read_failed("eof")
    ELSE [err      |-> read_chunks(data, 20, Unwrap(get_le(data, 16, 4)).val, <<>>).err,
          new_size |-> Unwrap(get_le(data, 8, 8)).val,
          chunks   |-> read_chunks(data, 20, Unwrap(get_le(data, 16, 4)).val, <<>>).chunks]

\* output[at .. at + bytes.len()].copy_from_slice(bytes)
splice(buf, at, bytes) ==
    SubSeq(buf, 1, at) \o bytes \o SubSeq(buf, at + Len(bytes) + 1, Len(buf))

\* delta[i].wrapping_add(old_slice[i]) over a whole ADD.
add_slices(delta, old_slice) ==
    SubSeq([j \in 1..Len(delta) |-> wrapping_add(delta[j], old_slice[j])], 1, Len(delta))

\* apply_chunk, the ADD of one Control: st is the loop's state (pos in the
\* control stream, old_pos, out_pos, output; err names what ended it).
chunk_add(ctrl, old, st, add_tag) ==
    IF add_tag \div 2 = 0 THEN st
    ELSE IF ~SliceOK(old, st.old_pos, st.old_pos + (add_tag \div 2))
            \/ ~SliceOK(st.output, st.out_pos, st.out_pos + (add_tag \div 2))
            \/ (add_tag % 2 = 0 /\ ~SliceOK(ctrl, st.pos, st.pos + (add_tag \div 2)))
    THEN [st EXCEPT !.err = "panic"]
    ELSE [st EXCEPT
             !.output = splice(@, st.out_pos,
                               IF add_tag % 2 = 0
                               THEN add_slices(
                                        Slice(ctrl, st.pos, st.pos + (add_tag \div 2)),
                                        Slice(old, st.old_pos,
                                              st.old_pos + (add_tag \div 2)))
                               ELSE Slice(old, st.old_pos, st.old_pos + (add_tag \div 2))),
             !.pos = IF add_tag % 2 = 0 THEN @ + (add_tag \div 2) ELSE @,
             !.old_pos = @ + (add_tag \div 2),
             !.out_pos = @ + (add_tag \div 2)]

\* COPY_OLD: the position varint, then the bytes of old.
chunk_copy_old(old, st, copy_len, old_copy_pos) ==
    IF old_copy_pos = None THEN [st EXCEPT !.err = "eof"]
    ELSE IF ~SliceOK(old, Unwrap(old_copy_pos).val, Unwrap(old_copy_pos).val + copy_len)
            \/ ~SliceOK(st.output, st.out_pos, st.out_pos + copy_len)
    THEN [st EXCEPT !.err = "panic"]
    ELSE [st EXCEPT
             !.output = splice(@, st.out_pos,
                               Slice(old, Unwrap(old_copy_pos).val,
                                     Unwrap(old_copy_pos).val + copy_len)),
             !.pos = Unwrap(old_copy_pos).pos,
             !.out_pos = @ + copy_len]

\* The literal COPY: bytes from the control stream.
chunk_copy_literal(ctrl, st, copy_len) ==
    IF ~SliceOK(ctrl, st.pos, st.pos + copy_len)
       \/ ~SliceOK(st.output, st.out_pos, st.out_pos + copy_len)
    THEN [st EXCEPT !.err = "panic"]
    ELSE [st EXCEPT !.output = splice(@, st.out_pos, Slice(ctrl, st.pos, st.pos + copy_len)),
                    !.pos = @ + copy_len,
                    !.out_pos = @ + copy_len]

chunk_copy_tagged(ctrl, old, st, copy_tag) ==
    IF copy_tag = None THEN [st EXCEPT !.err = "eof"]
    ELSE IF Unwrap(copy_tag).val \div 2 = 0 THEN [st EXCEPT !.pos = Unwrap(copy_tag).pos]
    ELSE IF Unwrap(copy_tag).val % 2 = 0
    THEN chunk_copy_literal(ctrl, [st EXCEPT !.pos = Unwrap(copy_tag).pos],
                            Unwrap(copy_tag).val \div 2)
    ELSE chunk_copy_old(old, st, Unwrap(copy_tag).val \div 2,
                        read_varint_slice(ctrl, Unwrap(copy_tag).pos))

\* apply_chunk, the COPY of one Control.
chunk_copy(ctrl, old, st) ==
    IF st.err /= "none" THEN st
    ELSE chunk_copy_tagged(ctrl, old, st, read_varint_slice(ctrl, st.pos))

chunk_seek_by(st, seek) ==
    IF seek = None THEN [st EXCEPT !.err = "eof"]
    ELSE [st EXCEPT !.pos = Unwrap(seek).pos,
                    !.old_pos = @ + unzigzag(Unwrap(seek).val)]

\* apply_chunk, the SEEK of one Control.
chunk_seek(ctrl, st) ==
    IF st.err /= "none" THEN st ELSE chunk_seek_by(st, read_varint_slice(ctrl, st.pos))

\* The while loop of apply_chunk.
RECURSIVE apply_loop(_, _, _)
apply_turn(ctrl, old, st, add_tag) ==
    IF add_tag = None THEN st
    ELSE apply_loop(ctrl, old,
             chunk_seek(ctrl,
                 chunk_copy(ctrl, old,
                     chunk_add(ctrl, old, [st EXCEPT !.pos = Unwrap(add_tag).pos],
                               Unwrap(add_tag).val))))

apply_loop(ctrl, old, st) ==
    IF st.err /= "none" THEN st
    ELSE apply_turn(ctrl, old, st, read_varint_slice(ctrl, st.pos))

\* debug_assert_eq!(out_pos, chunk.new_len)
apply_end(st, new_len) ==
    IF st.err = "none" /\ st.out_pos /= new_len THEN [st EXCEPT !.err = "assert"] ELSE st

apply_decompressed(chunk, old, output, d) ==
    IF ~d.ok
    THEN [pos |-> 0, old_pos |-> 0, out_pos |-> 0, output |-> output, err |-> "invalid data"]
    ELSE apply_end(apply_loop(d.data, old,
                              [pos |-> 0, old_pos |-> chunk.old_start, out_pos |-> 0,
                               output |-> output, err |-> "none"]),
                   chunk.new_len)

\* patch::apply_chunk
apply_chunk(chunk, old, output) ==
    apply_decompressed(chunk, old, output, zstd_decompress(chunk.data, chunk.raw_len))

(***************************************************************************)
(* The chunked patch pipeline (specification PatchSpec): the writer calls  *)
(* on_chunk once per chunk diff_chunked hands it, a reader parses the      *)
(* patch, and the chunks are applied, in any order, each into its slice    *)
(* output[new_start .. new_start + new_len] of a buffer of new_size bytes. *)
(***************************************************************************)
PatchChunkSizes == {None} \cup {Some(c) : c \in ChunkSizes}

\* diff_chunked builds the index; its non-chunked path populates it again.
InitPatch(o, n, chunk) ==
    pt = [older |-> o, newer |-> n, scan_chunk_size |-> chunk,
          index |-> IF chunk = None THEN populate(new_index(o, BlockSize))
                    ELSE new_index(o, BlockSize),
          patch |-> <<>>, k |-> 0, chunks |-> <<>>, output |-> <<>>, applied |-> {},
          err |-> "none", pc |-> "header"]

PatchInit ==
    /\ \E o \in ParOlders : \E n \in ParNewers : \E chunk \in PatchChunkSizes :
           InitPatch(o, n, chunk)
    /\ RunIdle
    /\ ix = Idle /\ ins = Idle /\ lk = Idle
    /\ ExtIdle

\* simple_diff_chunked_with_params up to its call of diff_chunked.
WriteHeader ==
    /\ pt.pc = "header"
    /\ pt' = [pt EXCEPT !.patch = patch_header(pt.newer, pt.scan_chunk_size),
                        !.pc = "chunks"]
    /\ UNCHANGED <<runVars, indexVars, extVars>>

WriteChunkTurn(c, r) ==
    pt' = IF c.panic \/ r.panic
          THEN [pt EXCEPT !.pc = "panic", !.err = "panic"]
          ELSE [pt EXCEPT !.patch = @ \o r.bytes, !.k = @ + 1]

WriteChunkScan(chunk, c) ==
    WriteChunkTurn(c, on_chunk(pt.k, patch_chunk_size(pt.newer, pt.scan_chunk_size),
                               pt.older, chunk, c.ms))

WriteChunkOf(chunk) ==
    WriteChunkScan(chunk, collect(iter_new, pt.older, chunk, pt.index))

\* diff_chunked calls on_chunk for chunk k, whose iterator yields the
\* Matches of the scan of that chunk.
WriteChunk ==
    /\ pt.pc = "chunks"
    /\ pt.k < on_chunk_calls(pt.newer, pt.scan_chunk_size)
    /\ WriteChunkOf(IF IsSome(pt.scan_chunk_size)
                    THEN chunk_nbuf(pt.newer, Unwrap(pt.scan_chunk_size), pt.k)
                    ELSE pt.newer)
    /\ UNCHANGED <<runVars, indexVars, extVars>>

\* diff_chunked and simple_diff_chunked_with_params return Ok.
WriteDone ==
    /\ pt.pc = "chunks"
    /\ pt.k = on_chunk_calls(pt.newer, pt.scan_chunk_size)
    /\ pt' = [pt EXCEPT !.pc = "written"]
    /\ UNCHANGED <<runVars, indexVars, extVars>>

ReadPatchTurn(r) ==
    pt' = IF r.err /= "none"
          THEN [pt EXCEPT !.pc = "read_err", !.err = r.err]
          ELSE [pt EXCEPT !.pc = "apply", !.chunks = r.chunks,
                          !.output = [j \in 1..r.new_size |-> 0]]

\* read_patch on the bytes written; the caller allocates the output.
ReadPatch ==
    /\ pt.pc = "written"
    /\ ReadPatchTurn(read_patch(pt.patch))
    /\ UNCHANGED <<runVars, indexVars, extVars>>

ApplyChunkTurn(i, r) ==
    pt' = IF r.err /= "none"
          THEN [pt EXCEPT !.pc = "apply_err", !.err = r.err]
          ELSE [pt EXCEPT !.output = splice(@, pt.chunks[i].new_start, r.output),
                          !.applied = @ \cup {i}]

\* apply_chunk(chunk, old, &mut output[new_start .. new_start + new_len])
ApplyChunk(i) ==
    /\ pt.pc = "apply"
    /\ i \notin pt.applied
    /\ IF ~SliceOK(pt.output, pt.chunks[i].new_start,
                   pt.chunks[i].new_start + pt.chunks[i].new_len)
       THEN pt' = [pt EXCEPT !.pc = "apply_err", !.err = "panic"]
       ELSE ApplyChunkTurn(i, apply_chunk(pt.chunks[i], pt.older,
                                          Slice(pt.output, pt.chunks[i].new_start,
                                                pt.chunks[i].new_start
                                                + pt.chunks[i].new_len)))
    /\ UNCHANGED <<runVars, indexVars, extVars>>

\* Every chunk has been applied.
ApplyDone ==
    /\ pt.pc = "apply"
    /\ pt.applied = DOMAIN pt.chunks
    /\ pt' = [pt EXCEPT !.pc = "done"]
    /\ UNCHANGED <<runVars, indexVars, extVars>>

PatchNext ==
    \/ WriteHeader
    \/ WriteChunk
    \/ WriteDone
    \/ ReadPatch
    \/ \E i \in DOMAIN pt.chunks : ApplyChunk(i)
    \/ ApplyDone

PatchSpec == PatchInit /\ [][PatchNext]_vars

(***************************************************************************)
(* Properties of the chunked patch (specification PatchSpec).              *)
(***************************************************************************)
\* C7: chunk independence.  For every older, newer and scan_chunk_size the
\* patch is written, read and applied without an error or a panic, and when
\* every chunk has been applied, in whatever order, the output is newer.
C7_ChunkIndependence ==
    /\ pt.pc \notin {"panic", "read_err", "apply_err"}
    /\ (pt.pc = "done" => pt.output = pt.newer)

\* The same with the empty newer left out.
C7_NonEmptyNewer ==
    pt.newer /= <<>> =>
        /\ pt.pc \notin {"panic", "read_err", "apply_err"}
        /\ (pt.pc = "done" => pt.output = pt.newer)

\* The same for scan_chunk_size = None.
C7_Unchunked ==
    pt.scan_chunk_size = None =>
        /\ pt.pc \notin {"panic", "read_err", "apply_err"}
        /\ (pt.pc = "done" => pt.output = pt.newer)

\* A patch of three chunks applied with the last chunk first.
C7_AppliedOutOfOrder ==
    /\ pt.pc = "apply"
    /\ Len(pt.chunks) = 3
    /\ pt.applied = {3}
    /\ \E j \in 1..Len(pt.output) : pt.output[j] /= 0

(***************************************************************************)
(* The single-stream patch: enc::Writer writes the header and one record   *)
(* per Control; bipatch::Reader parses the header in Reader::new and       *)
(* decodes the records in Read::read, a state machine over Initial,        *)
(* Add(n), Copy(n) and Final.                                              *)
(***************************************************************************)
\* enc::Writer::new(w, new_size): the header it writes.
writer_new(new_size) ==
    to_le_bytes(MAGIC, 4) \o to_le_bytes(VERSION, 4) \o to_le_bytes(new_size, 8)

\* simple_diff_with_params over the Writer: the header, then write(control)
\* for every Control the Translator sends for the Matches ms, close included.
write_stream(older, newer, ms) ==
    on_chunk_loop(translator_new, ms, older, newer, writer_new(Len(newer)))

\* A faulty read_le: the bytes that remain stand for the whole field.
read_le_padded(data, off, n) ==
    Some([val |-> from_le_bytes(Slice(data, Min(off, Len(data)), Min(off + n, Len(data)))),
          off |-> off + n])

\* read_u32_le / read_u64_le over read_exact: None when fewer than n bytes
\* remain in the stream.
read_le(data, off, n) == get_le(data, off, n)

\* VarIntReader::read_varint on the stream from pos: UnexpectedEof when the
\* stream ends before the first byte and when it ends inside the varint.
read_varint_tail(data, pos, d) ==
    IF d = None THEN [err |-> "eof", val |-> 0, pos |-> Len(data)]
    ELSE [err |-> "none", val |-> Unwrap(d).val, pos |-> Unwrap(d).pos]

read_varint(data, pos) == read_varint_tail(data, pos, decode_var_from(data, pos, 1, 0))

\* vec![0u8; 4096], the Reader's buffer for delta bytes
ReaderBufLen == 4096

reader_failed(e) ==
    [err |-> e, patch |-> <<>>, ppos |-> 0, old |-> <<>>, opos |-> 0, new_size |-> 0,
     state |-> "Final", n |-> 0]

\* bipatch::Reader::new
reader_new(patch, old) ==
    IF read_le(patch, 0, 4) = None THEN reader_failed("eof")
    ELSE IF Unwrap(read_le(patch, 0, 4)).val /= MAGIC THEN reader_failed("magic")
    ELSE IF read_le(patch, 4, 4) = None THEN reader_failed("eof")
    ELSE IF Unwrap(read_le(patch, 4, 4)).val /= VERSION THEN reader_failed("version")
    ELSE IF read_le(patch, 8, 8) = None THEN reader_failed("eof")
    ELSE [err |-> "none", patch |-> patch, ppos |-> 16, old |-> old, opos |-> 0,
          new_size |-> Unwrap(read_le(patch, 8, 8)).val, state |-> "Initial", n |-> 0]

\* The result of a read call that returns Err(e): the bytes already placed
\* in the caller's buffer are not reported.
read_err(r, e) == [r |-> [r EXCEPT !.err = e], bytes |-> <<>>]

\* ReaderState::Initial: the add length, or Final at UnexpectedEof.
reader_initial(r, v) ==
    IF v.err = "none" THEN [r EXCEPT !.state = "Add", !.n = v.val, !.ppos = v.pos]
    ELSE IF v.err = "eof" THEN [r EXCEPT !.state = "Final", !.ppos = v.pos]
    ELSE [r EXCEPT !.err = v.err]

\* ReaderState::Add(add_len) after its n bytes: the copy length when the
\* ADD is complete.
reader_add_next(r, n, v) ==
    IF r.n /= n THEN [r EXCEPT !.n = @ - n, !.ppos = @ + n, !.opos = @ + n]
    ELSE IF v.err /= "none" THEN [r EXCEPT !.err = v.err]
    ELSE [r EXCEPT !.state = "Copy", !.n = v.val, !.ppos = v.pos, !.opos = @ + n]

\* ReaderState::Add(add_len) with room for n bytes: read_exact on old, then
\* on the patch, then the wrapping addition.
reader_add(r, n) ==
    IF ~SliceOK(r.old, r.opos, r.opos + n) \/ ~SliceOK(r.patch, r.ppos, r.ppos + n)
    THEN [r |-> [r EXCEPT !.err = "eof"], bytes |-> <<>>]
    ELSE [r |-> reader_add_next(r, n, read_varint(r.patch, r.ppos + n)),
          bytes |-> add_slices(Slice(r.patch, r.ppos, r.ppos + n),
                               Slice(r.old, r.opos, r.opos + n))]

\* A Copy that ends without applying the seek to old.
reader_seek_skipped(r, v) ==
    IF v.err /= "none" THEN [r EXCEPT !.err = v.err]
    ELSE [r EXCEPT !.state = "Initial", !.n = 0, !.ppos = v.pos]

\* self.old.seek(SeekFrom::Current(seek)): an error before the start.
reader_seek(r, v) ==
    IF v.err /= "none" THEN [r EXCEPT !.err = v.err]
    ELSE IF r.opos + unzigzag(v.val) < 0 THEN [r EXCEPT !.err = "invalid input"]
    ELSE [r EXCEPT !.state = "Initial", !.n = 0, !.ppos = v.pos,
                   !.opos = @ + unzigzag(v.val)]

\* ReaderState::Copy(copy_len) with room for n bytes.
reader_copy(r, n) ==
    IF ~SliceOK(r.patch, r.ppos, r.ppos + n)
    THEN [r |-> [r EXCEPT !.err = "eof"], bytes |-> <<>>]
    ELSE [r |-> IF r.n /= n THEN [r EXCEPT !.n = @ - n, !.ppos = @ + n]
                ELSE reader_seek(r, read_varint(r.patch, r.ppos + n)),
          bytes |-> Slice(r.patch, r.ppos, r.ppos + n)]

\* One turn of the while loop of read, the caller's buffer having room for
\* `space` bytes.
reader_turn(r, space) ==
    IF r.state = "Initial"
    THEN [r |-> reader_initial(r, read_varint(r.patch, r.ppos)), bytes |-> <<>>]
    ELSE IF r.state = "Add"
    THEN reader_add(r, Min(Min(r.n, space), ReaderBufLen))
    ELSE reader_copy(r, Min(r.n, space))

\* Read::read for Reader: the while loop, got being the bytes placed so far.
RECURSIVE reader_loop(_, _, _)
reader_after(t, space, got) ==
    IF t.r.err /= "none" THEN read_err(t.r, t.r.err)
    ELSE reader_loop(t.r, space - Len(t.bytes), got \o t.bytes)

reader_loop(r, space, got) ==
    IF space = 0 \/ r.state = "Final" THEN [r |-> r, bytes |-> got]
    ELSE reader_after(reader_turn(r, space), space, got)

reader_read(r, space) == reader_loop(r, space, <<>>)

(***************************************************************************)
(* Inputs of the readers (specification ReaderSpec).  A header input is a  *)
(* header with a right or a wrong magic and version, cut at every length.  *)
(* A stream input is the output of the Writer for a diff, or the same      *)
(* Controls in the layout Reader::read decodes (length varints without a   *)
(* tag bit), whole or cut partway.  A chunk input is the control stream of *)
(* a chunk, whole or cut partway, compressed into a ChunkRef.              *)
(***************************************************************************)
MaxStreamPieces == 2

LongLen == 130

\* A buffer whose ADD length takes a varint of two bytes, and the Matches of
\* its diff against itself: one Match, which covers it.
LongBuf == SubSeq([j \in 1..LongLen |-> 0], 1, LongLen)

LongMatches ==
    <<[add_old_start |-> 0, add_new_start |-> 0, add_length |-> LongLen,
       copy_end |-> LongLen]>>

StreamPairs ==
    {<<o, Flatten(ps)>> : o \in ParOlders, ps \in SeqsUpTo(NewPieces, MaxStreamPieces)}

\* The Matches of the serial diff of (o, n).
scan_all(o, n) == collect(iter_new, o, n, new_index(o, BlockSize)).ms

\* The Controls a Translator sends when it is fed the Matches ms and closed.
RECURSIVE controls_loop(_, _, _, _, _)
controls_turn(t, rest, older, newer, acc) ==
    controls_loop(t.tr, rest, older, newer,
                  IF IsSome(t.ctl) THEN Append(acc, Unwrap(t.ctl)) ELSE acc)

controls_loop(t, ms, older, newer, acc) ==
    IF ms = <<>>
    THEN (IF IsSome(do_close(t, newer, TRUE).ctl)
          THEN Append(acc, Unwrap(do_close(t, newer, TRUE).ctl)) ELSE acc)
    ELSE controls_turn(translate(t, Head(ms), older, newer, TRUE), Tail(ms),
                       older, newer, acc)

controls_of(o, n, ms) == controls_loop(translator_new, ms, o, n, <<>>)

\* A Control in the layout Reader::read decodes: add length, delta bytes,
\* copy length, literal bytes, seek.
plain_record(c) ==
    encode_var(Len(c.add)) \o c.add \o encode_var(Len(c.copy)) \o c.copy
    \o encode_var(zigzag(c.seek))

RECURSIVE plain_records(_)
plain_records(cs) ==
    IF cs = <<>> THEN <<>> ELSE plain_record(Head(cs)) \o plain_records(Tail(cs))

RECURSIVE tagged_records(_)
tagged_records(cs) ==
    IF cs = <<>> THEN <<>>
    ELSE write_extended(Head(cs), None) \o tagged_records(Tail(cs))

\* The lengths at which a stream of records ends between two records.
RECURSIVE record_ends(_, _, _)
record_ends(cs, at, tagged) ==
    IF cs = <<>> THEN {at}
    ELSE {at} \cup record_ends(Tail(cs),
                               at + Len(IF tagged THEN write_extended(Head(cs), None)
                                        ELSE plain_record(Head(cs))),
                               tagged)

\* The lengths a stream is cut at: every length for a short stream, a few
\* for a long one.
CutsOf(stream) ==
    IF Len(stream) <= 40 THEN 0..(Len(stream) - 1)
    ELSE {0, 15, 16, 17, 18, 19, Len(stream) \div 2, Len(stream) - 1}

WrongMagics == {45516, MAGIC + 65536}

WrongVersions == {4096, VERSION + 16777216}

header_bytes(magic, version) ==
    to_le_bytes(magic, 4) \o to_le_bytes(version, 4) \o to_le_bytes(5, 8)
    \o to_le_bytes(0, 4)

\* The caller's buffer lengths of a read call.
ReadSizes == {1, 3, 64}

rd_input(kind, patch, old, newer, whole, cut, hdr) ==
    [kind |-> kind, patch |-> patch, old |-> old, newer |-> newer, whole |-> whole,
     cut |-> cut, hdr |-> hdr, r |-> reader_failed("none"), out |-> <<>>,
     rp |-> "unread", ac |-> "unapplied", old_start |-> 0, pc |-> "new"]

NoHdr == [magic |-> MAGIC, version |-> VERSION, len |-> 16]

InitHeader ==
    \E magic \in {MAGIC} \cup WrongMagics : \E version \in {VERSION} \cup WrongVersions :
        \E k \in 0..20 :
            rd = rd_input("header", SubSeq(header_bytes(magic, version), 1, k), <<>>, <<>>,
                          FALSE, k < 20, [magic |-> magic, version |-> version, len |-> k])

\* The Writer's output for the diff of (o, n).
InitWrittenOf(o, n, ms) ==
    rd = rd_input("stream", write_stream(o, n, ms).sub, o, n, TRUE, FALSE, NoHdr)

InitWritten ==
    \/ \E p \in StreamPairs : InitWrittenOf(p[1], p[2], scan_all(p[1], p[2]))
    \/ InitWrittenOf(LongBuf, LongBuf, LongMatches)

\* The Controls of the diff of (o, n) in the layout Reader::read decodes,
\* whole or cut.
InitPlainOf(o, n, stream, ends) ==
    \/ rd = rd_input("stream", stream, o, n, FALSE, FALSE, NoHdr)
    \/ \E k \in CutsOf(stream) :
           rd = rd_input("stream", SubSeq(stream, 1, k), o, n, FALSE, k \notin ends,
                         NoHdr)

InitPlainPair(o, n, cs) ==
    InitPlainOf(o, n, writer_new(Len(n)) \o plain_records(cs), record_ends(cs, 16, FALSE))

InitPlain ==
    \/ \E p \in StreamPairs :
           InitPlainPair(p[1], p[2], controls_of(p[1], p[2], scan_all(p[1], p[2])))
    \/ InitPlainPair(LongBuf, LongBuf, controls_of(LongBuf, LongBuf, LongMatches))

\* The control stream of the one chunk of (o, n), whole or cut; the chunk
\* starts in old where its first Match does (lib.rs 698).
InitChunkOf(o, n, ctrl, ends, ms) ==
    \/ rd = [rd_input("chunk", ctrl, o, n, TRUE, FALSE, NoHdr)
                EXCEPT !.old_start = IF ms = <<>> THEN 0 ELSE Head(ms).add_old_start]
    \/ \E k \in CutsOf(ctrl) :
           rd = [rd_input("chunk", SubSeq(ctrl, 1, k), o, n, FALSE, k \notin ends, NoHdr)
                   EXCEPT !.old_start = IF ms = <<>> THEN 0 ELSE Head(ms).add_old_start]

InitChunkPair(o, n, ms) ==
    InitChunkOf(o, n, tagged_records(controls_of(o, n, ms)),
                record_ends(controls_of(o, n, ms), 0, TRUE), ms)

InitChunk ==
    \/ \E p \in StreamPairs : InitChunkPair(p[1], p[2], scan_all(p[1], p[2]))
    \/ InitChunkPair(LongBuf, LongBuf, LongMatches)

\* The chunked patch of (o, n) written without a chunk size (one chunk),
\* whole or cut: every cut falls inside the header or the chunk record.
InitChunkedOf(o, n, patch) ==
    \/ rd = rd_input("patch", patch, o, n, TRUE, FALSE, NoHdr)
    \/ \E k \in CutsOf(patch) :
           rd = rd_input("patch", SubSeq(patch, 1, k), o, n, FALSE, TRUE, NoHdr)

InitChunked ==
    \E p \in StreamPairs :
        InitChunkedOf(p[1], p[2],
                      patch_header(p[2], None)
                      \o on_chunk(0, patch_chunk_size(p[2], None), p[1], p[2],
                                  scan_all(p[1], p[2])).bytes)

ReaderInit ==
    /\ InitHeader \/ InitWritten \/ InitPlain \/ InitChunk \/ InitChunked
    /\ rg = Idle /\ sc = Idle /\ dp = Idle /\ cb = Idle
    /\ RunIdle
    /\ ix = Idle /\ ins = Idle /\ lk = Idle /\ pt = Idle

readerRest == <<runVars, indexVars, pt, rg, sc, dp, cb>>

\* Reader::new(patch, old)
ReaderNewTurn(r) ==
    rd' = IF r.err /= "none" THEN [rd EXCEPT !.r = r, !.pc = "new_err"]
          ELSE [rd EXCEPT !.r = r, !.pc = "read"]

ReaderNew ==
    /\ rd.kind \in {"header", "stream"}
    /\ rd.pc = "new"
    /\ ReaderNewTurn(reader_new(rd.patch, rd.old))
    /\ UNCHANGED readerRest

\* One call of read with a buffer of `space` bytes; a call that returns
\* Ok(0) is the end of the stream for read_to_end.
ReaderReadTurn(t) ==
    rd' = IF t.r.err /= "none" THEN [rd EXCEPT !.r = t.r, !.pc = "read_err"]
          ELSE IF t.bytes = <<>> THEN [rd EXCEPT !.r = t.r, !.pc = "done"]
          ELSE [rd EXCEPT !.r = t.r, !.out = @ \o t.bytes]

ReaderRead ==
    /\ rd.pc = "read"
    /\ \E space \in ReadSizes : ReaderReadTurn(reader_read(rd.r, space))
    /\ UNCHANGED readerRest

\* read_patch on a header or a chunked patch.
HeaderReadPatch ==
    /\ rd.kind \in {"header", "patch"}
    /\ rd.rp = "unread"
    /\ rd' = [rd EXCEPT !.rp = read_patch(rd.patch).err]
    /\ UNCHANGED readerRest

\* The outcome of apply_chunk by build: debug_assert_eq! is compiled out of
\* a release build.
chunk_outcome(r, debug) ==
    IF r.err = "assert" /\ ~debug THEN [r EXCEPT !.err = "none"] ELSE r

ChunkApplyTurn(r) == rd' = [rd EXCEPT !.ac = r.err, !.out = r.output, !.pc = "done"]

ChunkApplyOf(old_start) ==
    \E debug \in BOOLEAN :
        ChunkApplyTurn(chunk_outcome(
            apply_chunk([old_start |-> old_start,
                         new_start |-> 0, new_len |-> Len(rd.newer),
                         raw_len |-> Len(rd.patch), data |-> zstd_compress(rd.patch)],
                        rd.old, [j \in 1..Len(rd.newer) |-> 0]),
            debug))

\* apply_chunk on a chunk input, into an output of new_len bytes.
ChunkApply ==
    /\ rd.kind = "chunk"
    /\ rd.pc = "new"
    /\ ChunkApplyOf(rd.old_start)
    /\ UNCHANGED readerRest

ReaderNext ==
    \/ ReaderNew
    \/ ReaderRead
    \/ HeaderReadPatch
    \/ ChunkApply

ReaderSpec == ReaderInit /\ [][ReaderNext]_vars

(***************************************************************************)
(* Properties of the readers (specification ReaderSpec).                   *)
(***************************************************************************)
\* What the claims give for a header with the fields h cut at h.len bytes,
\* read by a reader whose header takes `need` bytes.
HeaderVerdict(h, need) ==
    IF h.len < 4 THEN "eof"
    ELSE IF h.magic /= MAGIC THEN "magic"
    ELSE IF h.len < 8 THEN "eof"
    ELSE IF h.version /= VERSION THEN "version"
    ELSE IF h.len < need THEN "eof"
    ELSE "none"

\* C11: format rejection.  Reader::new and read_patch return WrongMagic when
\* the first u32 is there and differs from MAGIC, WrongVersion when the
\* magic is right and the second u32 is there and differs from VERSION, and
\* UnexpectedEof when the input ends inside the header field being read;
\* never WrongMagic or WrongVersion for a field that is cut, never
\* UnexpectedEof for a complete wrong field.
C11_FormatRejection ==
    rd.kind = "header" =>
        /\ (rd.pc = "new_err" => rd.r.err = HeaderVerdict(rd.hdr, 16))
        /\ (rd.pc \notin {"new", "new_err"} => HeaderVerdict(rd.hdr, 16) = "none")
        /\ (rd.rp /= "unread" => rd.rp = HeaderVerdict(rd.hdr, 20))

C11_Witness ==
    /\ rd.kind = "header"
    /\ rd.hdr.magic = MAGIC
    /\ rd.hdr.version = VERSION + 16777216
    /\ rd.hdr.len = 11
    /\ rd.pc = "new_err"
    /\ rd.r.err = "version"
    /\ rd.rp = "version"

\* C12: a patch that ends early (a header, a chunk record, a varint or a
\* record cut partway) is never taken for a normal end: read_patch returns an
\* error, Reader::new or a later read returns an error instead of reaching
\* the end of the stream, and apply_chunk does not return Ok.
C12_TruncationReported ==
    rd.cut =>
        /\ (rd.rp /= "unread" => rd.rp /= "none")
        /\ (rd.kind = "header" /\ rd.hdr.len < 16 => rd.pc \in {"new", "new_err"})
        /\ (rd.kind = "stream" => rd.pc /= "done")
        /\ (rd.kind = "chunk" => rd.ac /= "none")

\* The Reader takes the add-length varint cut after its first byte for the
\* end of the stream: the read ends normally with no byte of newer.
C12_ReaderCutInAddLength ==
    /\ rd.kind = "stream" /\ rd.cut
    /\ Len(rd.patch) = 17
    /\ rd.patch[17] >= 128
    /\ rd.pc = "done"
    /\ rd.out = <<>>
    /\ rd.newer = LongBuf

\* apply_chunk of a release build returns Ok for a control stream cut inside
\* its first tag, with nothing written to the output.
C12_ChunkCutInTag ==
    /\ rd.kind = "chunk" /\ rd.cut
    /\ Len(rd.patch) = 1
    /\ rd.patch[1] >= 128
    /\ rd.ac = "none"

\* read_patch reports every cut of a header or a chunk record.
C12_ReadPatchReports ==
    rd.cut /\ rd.rp /= "unread" => rd.rp = "eof" \/ (rd.kind = "header" /\ rd.rp /= "none")

\* A read ends normally on a cut stream only inside an add-length varint,
\* which takes an ADD of at least 128 bytes.
C12_ReaderReportsShortAdds ==
    rd.kind = "stream" /\ rd.cut /\ rd.pc = "done" => Len(rd.newer) >= 128

\* apply_chunk returns Ok on a cut control stream only when the cut is
\* inside the tag that starts a record.
C12_ChunkReportsElsewhere ==
    rd.kind = "chunk" /\ rd.cut /\ rd.ac = "none" => Len(rd.newer) >= 64

C12_TruncatedChunkData ==
    /\ rd.kind = "patch" /\ rd.cut
    /\ Len(rd.patch) > 60
    /\ rd.rp = "eof"

\* C13: the stream the Writer produces for the Controls of a diff, read to
\* the end by a Reader over old, yields exactly newer: no read fails, and the
\* bytes read when the stream ends are newer.
C13_WriterReaderRoundTrip ==
    rd.kind = "stream" /\ rd.whole =>
        /\ rd.pc \notin {"new_err", "read_err"}
        /\ (rd.pc = "done" => rd.out = rd.newer)

\* A written stream whose reading ends normally with other bytes than newer.
C13_WrongBytes ==
    /\ rd.kind = "stream" /\ rd.whole
    /\ rd.pc = "done"
    /\ rd.out /= rd.newer

\* A written stream whose reading fails.
C13_ReadFails ==
    /\ rd.kind = "stream" /\ rd.whole
    /\ rd.pc = "read_err"

\* A written stream that reads back as newer.
C13_SomeRoundTrip ==
    /\ rd.kind = "stream" /\ rd.whole
    /\ rd.pc = "done"
    /\ rd.out = rd.newer

\* The same Controls in the layout without tag bits do read back: a stream
\* that ends after a whole record yields the bytes of newer up to there.
C13_PlainReadsBack ==
    rd.kind = "stream" /\ ~rd.whole /\ ~rd.cut /\ Len(rd.patch) >= 16 =>
        /\ rd.pc \notin {"new_err", "read_err"}
        /\ Len(rd.out) <= Len(rd.newer)
        /\ rd.out = SubSeq(rd.newer, 1, Len(rd.out))

C13_PlainRoundTrip ==
    /\ rd.kind = "stream" /\ ~rd.whole /\ ~rd.cut
    /\ rd.pc = "done"
    /\ Len(rd.newer) > 9
    /\ rd.out = rd.newer

\* A header cut inside the magic, reported as truncation by both readers.
C11_CutMagic ==
    /\ rd.kind = "header"
    /\ rd.hdr.magic \in WrongMagics
    /\ rd.hdr.len = 3
    /\ rd.r.err = "eof"
    /\ rd.pc = "new_err"
    /\ rd.rp = "eof"

(***************************************************************************)
(* Runs whose callback may fail (specification ErrSpec): on_match returns  *)
(* Err outright, or it is translator.translate with an on_control that     *)
(* returns Ok or Err as it likes (simple_diff_with_params, whose sink is a *)
(* Writer).  cb records what every on_match call returned: ok, err, or     *)
(* control_err for the Err of on_control.  In chunked mode an Err leaves the *)
(* closure of thread::scope, which then waits for the scan thread (pc =    *)
(* join) while the workers go on pushing.  The rings are scaled down with  *)
(* the inputs: a chunk of these runs yields a handful of Matches, where    *)
(* the program's rings hold 8192.                                          *)
(***************************************************************************)
ErrRingCapacity == 1

\* A scan_chunk_size that makes one chunk of every new buffer.
WholeChunk == 32

ErrInit ==
    /\ \/ \E o \in ParOlders : \E n \in PieceNewers : InitRun(o, n, BlockSize, None)
       \/ \E o \in ParOlders : \E n \in ParNewers : \E c \in ChunkSizes :
              InitRun(o, n, BlockSize, Some(c))
       \/ \E o \in ParOlders : \E n \in PieceNewers :
              InitRun(o, n, BlockSize, Some(WholeChunk))
    /\ ix = Idle /\ ins = Idle /\ lk = Idle /\ pt = Idle
    /\ rd = Idle /\ rg = Idle /\ sc = Idle /\ dp = Idle
    /\ cb = <<>>

\* on_match(m)?: translate under a callback that returns cb_ok; `left` is
\* where diff is once on_match has returned Err.
OnMatchTurn(m, t, left) ==
    /\ seen' = Append(seen, m)
    /\ tr' = t.tr
    /\ controls' = controls \o t.ctl
    /\ sent' = Len(t.ctl)
    /\ cb' = Append(cb, IF t.ok THEN "ok" ELSE "control_err")
    /\ ap' = IF t.ok THEN apply_opt(ap, t.ctl, obuf, nbuf) ELSE ap
    /\ pc' = IF t.panic THEN "panic_translate"
             ELSE IF ~t.ok THEN left
             ELSE IF apply_opt(ap, t.ctl, obuf, nbuf).failed /= "no" THEN "panic_apply"
             ELSE pc
    /\ UNCHANGED <<rets, rd, rg, sc, dp>>

\* on_match(m)?, on_match returning Err before it does anything.
OnMatchErr(m, left) ==
    /\ seen' = Append(seen, m)
    /\ cb' = Append(cb, "err")
    /\ sent' = 0
    /\ pc' = left
    /\ UNCHANGED <<tr, controls, rets, ap, rd, rg, sc, dp>>

\* The ways on_match may fail.
Callbacks == {"ok", "control_err", "err"}

OnMatchBy(m, how, left) ==
    IF how = "err" THEN OnMatchErr(m, left)
    ELSE OnMatchTurn(m, translate(tr, m, obuf, nbuf, how = "ok"), left)

\* diff, serial: `for m in BsdiffIterator::new(..) { on_match(m)? }`.
ErrSerialTurn(r, how) ==
    /\ iters' = [iters EXCEPT ![0] = r.it]
    /\ IF r.panic
       THEN /\ pc' = "panic_scan"
            /\ UNCHANGED <<emitted, seen, tr, controls, sent, rets, ap, extVars>>
       ELSE IF IsSome(r.out)
       THEN /\ emitted' = [emitted EXCEPT ![0] = Append(@, Unwrap(r.out))]
            /\ OnMatchBy(Unwrap(r.out), how, "diff_err")
       ELSE /\ pc' = "close"
            /\ UNCHANGED <<emitted, seen, tr, controls, sent, rets, ap, extVars>>

ErrSerialStep ==
    /\ pc = "diff"
    /\ ~IsChunked
    /\ \E how \in Callbacks : ErrSerialTurn(next(iters[0], obuf, nbuf, index), how)
    /\ UNCHANGED <<inputVars, rings, wdone, cons, indexVars, pt>>

\* prod.push(m) of worker i waits: its iterator has yielded a Match and its
\* ring is full.
PushWaits(i, r) == ~r.panic /\ IsSome(r.out) /\ Len(rings[i]) >= ErrRingCapacity

\* A scan worker, which runs until its iterator ends whether or not the
\* consumers are still there.
ErrWorkerStep(i) ==
    /\ pc \in {"diff", "join"}
    /\ IsChunked
    /\ ~wdone[i]
    /\ ~PushWaits(i, next(iters[i], obuf, scan_nbuf(i), index))
    /\ WorkerTurn(i, next(iters[i], obuf, scan_nbuf(i), index))
    /\ UNCHANGED <<inputVars, cons, seen, tr, controls, sent, rets, ap, indexVars, pt, extVars>>

\* diff, chunked: `while let Some(m) = cons.pop() { .. on_match(m)?; }`.
ErrConsumerPop ==
    /\ pc = "diff"
    /\ IsChunked
    /\ cons < NumChunks
    /\ rings[cons] /= <<>>
    /\ \E how \in Callbacks :
           OnMatchBy(shift_match(Head(rings[cons]), cons * ChunkSize), how, "join")
    /\ rings' = [rings EXCEPT ![cons] = Tail(@)]
    /\ UNCHANGED <<inputVars, iters, emitted, wdone, cons, indexVars, pt>>

\* thread::scope returns once the scan thread has ended: diff returns Err.
ErrJoin ==
    /\ pc = "join"
    /\ \A i \in Scans : wdone[i]
    /\ pc' = "diff_err"
    /\ UNCHANGED <<inputVars, scanVars, seen, tr, controls, sent, rets, ap,
                   indexVars, pt, extVars>>

\* The caller returns the Err of diff, which drops the Translator.
ErrDrop == \E cb_ok \in BOOLEAN : DoClose("diff_err", "end", cb_ok)

ErrNext ==
    \/ ErrSerialStep
    \/ \E i \in Scans : ErrWorkerStep(i)
    \/ ErrConsumerPop
    \/ ConsumerNext
    \/ DiffReturn
    \/ ErrJoin
    \/ Close
    \/ Drop
    \/ ErrDrop

ErrSpec == ErrInit /\ [][ErrNext]_vars

(***************************************************************************)
(* Properties of the runs whose callback may fail (specification ErrSpec). *)
(***************************************************************************)
\* on_match has returned Err.
Erred == cb /= <<>> /\ cb[Len(cb)] /= "ok"

\* No call of on_match follows one that returned Err, diff does not return
\* Ok after it, and a Translator call hands on_control at most one Control.
ShortCircuit ==
    /\ Len(cb) = Len(seen)
    /\ \A j \in 1..(Len(cb) - 1) : cb[j] = "ok"
    /\ (Erred => pc \in {"join", "diff_err", "end", "panic_scan"})
    /\ (pc \in {"join", "diff_err"} => Erred)
    /\ (pc \in {"join", "diff_err"} /\ cb[Len(cb)] = "control_err" => sent = 1)
    /\ (pc \in {"close", "drop"} => ~Erred)
    /\ sent <= 1

\* diff, waiting for the scan thread after an Err, gets to return: every
\* worker has ended, or one of them can still run (every run is finite, so a
\* diff that is never stuck does return).
ReturnsErr ==
    pc = "join" =>
        \/ \A i \in Scans : wdone[i]
        \/ \E i \in Scans :
               ~wdone[i] /\ ~PushWaits(i, next(iters[i], obuf, scan_nbuf(i), index))

\* C14: once on_match has returned Err, diff returns that Err and on_match is
\* not called again, serial or chunked; an Err of on_control ends the
\* Translator call it is in, with no further Control handed over.
C14_CallbackErrors == ShortCircuit /\ ReturnsErr

\* What does hold: on_match is never called after an Err, diff never returns
\* Ok after one, and no Translator call hands over a second Control.
C14_NoCallAfterErr == ShortCircuit

\* In serial mode diff returns the Err at once.
C14_SerialReturns == ~IsChunked => pc /= "join" /\ (Erred => pc \in {"diff_err", "end"})

\* A chunked run that returns the Err.
C14_ChunkedReturned ==
    /\ IsChunked
    /\ pc = "diff_err"
    /\ \E i \in Scans : Len(emitted[i]) > 1

\* A chunked run stuck after an Err: diff waits for the scan thread, and a
\* worker waits in push on a full ring whose consumer is gone.
C14_StuckInJoin ==
    /\ pc = "join"
    /\ \A i \in Scans :
           wdone[i] \/ PushWaits(i, next(iters[i], obuf, scan_nbuf(i), index))
    /\ \E i \in Scans : ~wdone[i]

(***************************************************************************)
(* DiffParams::new and with_threads (specification ParamsSpec): dp holds   *)
(* the arguments of one call and, once it is made, what it returned.       *)
(***************************************************************************)
\* The largest block size, chunk size and thread count Init draws.
MaxParam == 6

\* A faulty validation, which rejects the smallest block size too.
with_threads_above_4(block_size, scan_chunk_size, num_threads) ==
    IF block_size <= 4
    THEN [ok |-> FALSE, err |-> "block size cannot be less than 4"]
    ELSE [ok |-> TRUE, block_size |-> block_size, scan_chunk_size |-> scan_chunk_size,
          num_threads |-> num_threads, use_ram |-> FALSE]

\* DiffParams::with_threads
with_threads(block_size, scan_chunk_size, num_threads) ==
    IF block_size < 4
    THEN [ok |-> FALSE, err |-> "block size cannot be less than 4"]
    ELSE IF IsSome(scan_chunk_size) /\ Unwrap(scan_chunk_size) < 1
    THEN [ok |-> FALSE, err |-> "scan chunk size cannot be less than 1"]
    ELSE IF IsSome(num_threads) /\ Unwrap(num_threads) < 1
    THEN [ok |-> FALSE, err |-> "num_threads cannot be less than 1"]
    ELSE [ok |-> TRUE, block_size |-> block_size, scan_chunk_size |-> scan_chunk_size,
          num_threads |-> num_threads, use_ram |-> FALSE]

\* DiffParams::new
diff_params_new(block_size, scan_chunk_size) ==
    with_threads(block_size, scan_chunk_size, None)

\* The usize values an Option argument is drawn from.
OptionsUpTo(n) == {None} \cup {Some(v) : v \in 0..n}

ParamsInit ==
    /\ \E b \in 0..MaxParam : \E c \in OptionsUpTo(MaxParam) : \E t \in OptionsUpTo(MaxParam) :
           dp = [block_size |-> b, scan_chunk_size |-> c, num_threads |-> t,
                 call |-> "none", ret |-> None]
    /\ rd = Idle /\ rg = Idle /\ sc = Idle /\ cb = Idle
    /\ RunIdle
    /\ ix = Idle /\ ins = Idle /\ lk = Idle /\ pt = Idle

paramsRest == <<runVars, indexVars, pt, rd, rg, sc, cb>>

WithThreads ==
    /\ dp.call = "none"
    /\ dp' = [dp EXCEPT !.call = "with_threads",
                        !.ret = Some(with_threads(dp.block_size, dp.scan_chunk_size,
                                                  dp.num_threads))]
    /\ UNCHANGED paramsRest

DiffParamsNew ==
    /\ dp.call = "none"
    /\ dp' = [dp EXCEPT !.call = "new",
                        !.ret = Some(diff_params_new(dp.block_size, dp.scan_chunk_size))]
    /\ UNCHANGED paramsRest

ParamsNext == WithThreads \/ DiffParamsNew

ParamsSpec == ParamsInit /\ [][ParamsNext]_vars

\* The arguments the claim says are rejected, num_threads being t.
Rejected(t) ==
    dp.block_size < 4 \/ dp.scan_chunk_size = Some(0) \/ t = Some(0)

\* What a call with num_threads = t has returned, by the claim.
ValidatedAs(t) ==
    /\ Unwrap(dp.ret).ok = ~Rejected(t)
    /\ Unwrap(dp.ret).ok =>
           /\ Unwrap(dp.ret).block_size = dp.block_size
           /\ Unwrap(dp.ret).scan_chunk_size = dp.scan_chunk_size
           /\ Unwrap(dp.ret).num_threads = t

\* C15: with_threads returns Err exactly when block_size < 4, or
\* scan_chunk_size is Some(0), or num_threads is Some(0), and otherwise Ok
\* with the three values as given; new is with_threads without a thread count.
C15_Validation ==
    /\ (dp.call = "with_threads" => ValidatedAs(dp.num_threads))
    /\ (dp.call = "new" => ValidatedAs(None))

\* The smallest block size, accepted with both options None.
C15_Witness ==
    /\ dp.call = "with_threads"
    /\ dp.block_size = 4 /\ dp.scan_chunk_size = None /\ dp.num_threads = None
    /\ Unwrap(dp.ret).ok

\* A thread count of zero, rejected though the other arguments are valid.
C15_ZeroThreads ==
    /\ dp.call = "with_threads"
    /\ dp.block_size = 5 /\ dp.scan_chunk_size = Some(1) /\ dp.num_threads = Some(0)
    /\ ~Unwrap(dp.ret).ok

(***************************************************************************)
(* The scenarios of the documentation (specification ScenarioSpec): runs   *)
(* of diff, serial and chunked, on the single insertion and on identical   *)
(* inputs, for the smallest and the default block size and one between.    *)
(***************************************************************************)
\* Longest buffer of the identical inputs.
MaxSame == 12

InsertionOlder == <<97, 98, 99, 100, 101, 102, 103, 104, 105, 106>>   \* "abcdefghij"

InsertionNewer ==                                                 \* "abcdeXYZfghij"
    <<97, 98, 99, 100, 101, 88, 89, 90, 102, 103, 104, 105, 106>>

\* DiffParams::default().block_size
DefaultBlockSize == 32

ScenarioBlockSizes == {BlockSize, BlockSize + 1, DefaultBlockSize}

\* [0, 1, .., n - 1] as bytes, and n equal bytes.
Ramp(n) == SubSeq([j \in 1..n |-> (j - 1) % 256], 1, n)

Zeros(n) == SubSeq([j \in 1..n |-> 0], 1, n)

SameBufs == {Ramp(n) : n \in 1..MaxSame} \cup {Zeros(n) : n \in 1..MaxSame}

ScenarioInit ==
    /\ \E bsz \in ScenarioBlockSizes : \E c \in {None} \cup {Some(k) : k \in ChunkSizes} :
           \/ InitRun(InsertionOlder, InsertionNewer, bsz, c)
           \/ \E b \in SameBufs : InitRun(b, b, bsz, c)
    /\ ix = Idle /\ ins = Idle /\ lk = Idle /\ pt = Idle
    /\ ExtIdle

ScenarioSpec == ScenarioInit /\ [][Next]_vars

IsInsertion == obuf = InsertionOlder /\ nbuf = InsertionNewer

\* C16, as claimed: the diff of the single insertion yields a first Match
\* whose ADD is "abcde" and whose COPY is "XYZ", then a Match that covers
\* "fghij" from old offset 5, so that the first Control has seek = 0.
C16_AsClaimed ==
    IsInsertion /\ ~IsChunked /\ pc = "end" /\ rets[1] = "ok" =>
        /\ Len(seen) >= 2
        /\ seen[1] = [add_old_start |-> 0, add_new_start |-> 0, add_length |-> 5,
                      copy_end |-> 8]
        /\ seen[2].add_old_start = 5 /\ seen[2].add_new_start = 8
        /\ seen[2].add_length = 5
        /\ controls[1].seek = 0

\* C16, amended: the diff of the single insertion yields one Match, whose
\* ADD is "abcde" and whose COPY is "XYZfghij"; its Control has seek = 0.
C16_SingleMatch ==
    IsInsertion /\ ~IsChunked =>
        /\ DiffDone =>
               seen = <<[add_old_start |-> 0, add_new_start |-> 0, add_length |-> 5,
                         copy_end |-> 13]>>
        /\ pc = "end" /\ rets[1] = "ok" =>
               controls = <<[add |-> <<0, 0, 0, 0, 0>>,
                             copy |-> SubSeq(InsertionNewer, 6, 13), seek |-> 0]>>

\* The run with blocks of 5 bytes, whose index holds "fghij": the match is
\* found at scan = 8 and not taken, being no 8 bytes better than oldscore.
C16_Witness ==
    /\ IsInsertion /\ ~IsChunked
    /\ params.block_size = BlockSize + 1
    /\ pc = "end" /\ rets[1] = "ok"
    /\ Len(controls) = 1
    /\ longest_substring_match(index, SubSeq(nbuf, 9, 13)).start = 5
    /\ longest_substring_match(index, SubSeq(nbuf, 9, 13)).len = 5

\* C17: the serial diff of a non-empty buffer against itself yields exactly
\* one Match, which covers it as ADD; the Translator's delta for it is all
\* zero with seek 0; the chunked writer without a chunk size announces one
\* chunk.
C17_IdenticalInputs ==
    obuf = nbuf /\ Len(nbuf) >= 1 /\ ~IsChunked =>
        /\ DiffDone =>
               seen = <<[add_old_start |-> 0, add_new_start |-> 0,
                         add_length |-> Len(nbuf), copy_end |-> Len(nbuf)]>>
        /\ pc = "end" /\ rets[1] = "ok" =>
               controls = <<[add |-> Zeros(Len(nbuf)), copy |-> <<>>, seek |-> 0]>>
        /\ Slice(patch_header(nbuf, None), 16, 20) = to_le_bytes(1, 4)
        /\ on_chunk_calls(nbuf, None) = 1

\* The longest ramp, with blocks of 4 bytes, diffed and closed.
C17_Witness ==
    /\ obuf = Ramp(MaxSame) /\ nbuf = obuf
    /\ ~IsChunked /\ params.block_size = BlockSize
    /\ pc = "end" /\ rets[1] = "ok"
    /\ Len(seen) = 1
    /\ seen[1].add_length = MaxSame

(***************************************************************************)
(* The ring channel (specification RingSpec): one RingProducer and one     *)
(* RingConsumer, each a thread that takes one step per atomic access, per  *)
(* operation of the ring buffer and per operation of the mutex and the     *)
(* condition variable.  The items pushed are 1, 2, ..: distinct, so that a *)
(* loss, a repetition or a reordering shows.                               *)
(***************************************************************************)
\* Largest capacity of the ring, and most items one producer pushes.
MaxCapacity == 2

MaxItems == 3

\* The turns of the spin loops of push and pop.
SpinTurns == 32

\* ring_channel(capacity), with both threads between calls.
ring_channel(capacity) ==
    [cap |-> capacity, buf |-> <<>>,
     done |-> FALSE, consumer_waiting |-> FALSE, producer_waiting |-> FALSE,
     mu |-> FALSE,              \* the mutex is held
     blocked |-> {},            \* the threads inside condvar.wait
     ppc |-> "idle", pspin |-> 0, pushed |-> 0,
     cpc |-> "idle", cspin |-> 0, citem |-> None, popped |-> <<>>]

is_full(r) == Len(r.buf) >= r.cap

is_empty(r) == r.buf = <<>>

\* condvar.wait returns in the thread t.
wake(r, t) ==
    IF t = "prod"
    THEN [r EXCEPT !.blocked = @ \ {t}, !.ppc = "woken"]
    ELSE [r EXCEPT !.blocked = @ \ {t}, !.cpc = "woken"]

\* condvar.notify_one(): one of the threads that wait, if any.
notify_one(r) == IF r.blocked = {} THEN {r} ELSE {wake(r, t) : t \in r.blocked}

\* The states after one step of RingProducer::push; none while the thread
\* waits for the mutex or for the condition variable.
push_step(r) ==
    CASE r.ppc = "try_push" ->
             IF is_full(r)
             THEN {[r EXCEPT !.ppc = "spin", !.pspin = 0]}
             ELSE {[r EXCEPT !.buf = Append(@, r.pushed + 1), !.pushed = @ + 1,
                             !.ppc = "load_cw"]}
      [] r.ppc = "load_cw" ->
             {[r EXCEPT !.ppc = IF r.consumer_waiting THEN "lock_notify" ELSE "idle"]}
      [] r.ppc = "lock_notify" ->
             IF r.mu THEN {} ELSE {[r EXCEPT !.mu = TRUE, !.ppc = "notify"]}
      [] r.ppc = "notify" ->
             {[x EXCEPT !.mu = FALSE, !.ppc = "idle"] : x \in notify_one(r)}
      [] r.ppc = "spin" ->
             IF ~is_full(r) \/ r.pspin + 1 >= SpinTurns
             THEN {[r EXCEPT !.ppc = "recheck"]}
             ELSE {[r EXCEPT !.pspin = @ + 1]}
      [] r.ppc = "recheck" ->
             {[r EXCEPT !.ppc = IF is_full(r) THEN "lock_wait" ELSE "try_push"]}
      [] r.ppc = "lock_wait" ->
             IF r.mu THEN {} ELSE {[r EXCEPT !.mu = TRUE, !.ppc = "locked_full"]}
      [] r.ppc = "locked_full" ->
             IF is_full(r)
             THEN {[r EXCEPT !.ppc = "store_pw"]}
             ELSE {[r EXCEPT !.mu = FALSE, !.ppc = "try_push"]}
      [] r.ppc = "store_pw" ->
             {[r EXCEPT !.producer_waiting = TRUE, !.ppc = "wait"]}
      [] r.ppc = "wait" ->
             {[r EXCEPT !.mu = FALSE, !.blocked = @ \cup {"prod"}, !.ppc = "blocked"]}
      [] r.ppc = "woken" ->
             IF r.mu THEN {} ELSE {[r EXCEPT !.ppc = "clear_pw"]}
      [] r.ppc = "clear_pw" ->
             {[r EXCEPT !.producer_waiting = FALSE, !.ppc = "try_push"]}
      [] OTHER -> {}

\* The states after one step of <RingProducer as Drop>::drop.
producer_drop_step(r) ==
    CASE r.ppc = "store_done" -> {[r EXCEPT !.done = TRUE, !.ppc = "drop_lock"]}
      [] r.ppc = "drop_lock" ->
             IF r.mu THEN {} ELSE {[r EXCEPT !.mu = TRUE, !.ppc = "drop_notify"]}
      [] r.ppc = "drop_notify" ->
             {[x EXCEPT !.mu = FALSE, !.ppc = "dropped"] : x \in notify_one(r)}
      [] OTHER -> {}

\* pop returns res.
pop_return(r, res) ==
    [r EXCEPT !.popped = Append(@, res), !.citem = None, !.cpc = "idle"]

\* A faulty return after done, which takes the channel for drained.
pop_after_done_none(r) == pop_return(r, None)

\* `return self.cons.try_pop()` once done is seen.
pop_after_done(r) ==
    IF is_empty(r)
    THEN pop_return(r, None)
    ELSE pop_return([r EXCEPT !.buf = Tail(@)], Some(Head(r.buf)))

\* The states after one step of RingConsumer::pop.
pop_step(r) ==
    CASE r.cpc = "try_pop" ->
             IF is_empty(r)
             THEN {[r EXCEPT !.cpc = "load_done"]}
             ELSE {[r EXCEPT !.buf = Tail(@), !.citem = Some(Head(r.buf)),
                             !.cpc = "load_pw"]}
      [] r.cpc = "load_pw" ->
             IF r.producer_waiting
             THEN {[r EXCEPT !.cpc = "lock_notify"]}
             ELSE {pop_return(r, r.citem)}
      [] r.cpc = "lock_notify" ->
             IF r.mu THEN {} ELSE {[r EXCEPT !.mu = TRUE, !.cpc = "notify"]}
      [] r.cpc = "notify" ->
             {pop_return([x EXCEPT !.mu = FALSE], r.citem) : x \in notify_one(r)}
      [] r.cpc = "load_done" ->
             {[r EXCEPT !.cpc = IF r.done THEN "last_pop" ELSE "spin", !.cspin = 0]}
      [] r.cpc = "last_pop" -> {pop_after_done(r)}
      [] r.cpc = "spin" ->
             IF ~is_empty(r) \/ r.done \/ r.cspin + 1 >= SpinTurns
             THEN {[r EXCEPT !.cpc = "recheck"]}
             ELSE {[r EXCEPT !.cspin = @ + 1]}
      [] r.cpc = "recheck" ->
             {[r EXCEPT !.cpc = IF is_empty(r) THEN "lock_wait" ELSE "try_pop"]}
      [] r.cpc = "lock_wait" ->
             IF r.mu THEN {} ELSE {[r EXCEPT !.mu = TRUE, !.cpc = "locked_empty"]}
      [] r.cpc = "locked_empty" ->
             IF is_empty(r)
             THEN {[r EXCEPT !.cpc = "locked_done"]}
             ELSE {[r EXCEPT !.mu = FALSE, !.cpc = "try_pop"]}
      [] r.cpc = "locked_done" ->
             IF r.done
             THEN {[r EXCEPT !.mu = FALSE, !.cpc = "try_pop"]}
             ELSE {[r EXCEPT !.cpc = "store_cw"]}
      [] r.cpc = "store_cw" ->
             {[r EXCEPT !.consumer_waiting = TRUE, !.cpc = "wait"]}
      [] r.cpc = "wait" ->
             {[r EXCEPT !.mu = FALSE, !.blocked = @ \cup {"cons"}, !.cpc = "blocked"]}
      [] r.cpc = "woken" ->
             IF r.mu THEN {} ELSE {[r EXCEPT !.cpc = "clear_cw"]}
      [] r.cpc = "clear_cw" ->
             {[r EXCEPT !.consumer_waiting = FALSE, !.cpc = "try_pop"]}
      [] OTHER -> {}

RingInit ==
    /\ \E capacity \in 1..MaxCapacity : rg = ring_channel(capacity)
    /\ RunIdle
    /\ ix = Idle /\ ins = Idle /\ lk = Idle /\ pt = Idle
    /\ rd = Idle /\ sc = Idle /\ dp = Idle /\ cb = Idle

ringRest == <<runVars, indexVars, pt, rd, sc, dp, cb>>

\* The producer's thread calls push.
Push ==
    /\ rg.ppc = "idle" /\ rg.pushed < MaxItems
    /\ rg' = [rg EXCEPT !.ppc = "try_push"]
    /\ UNCHANGED ringRest

PushStep ==
    /\ rg' \in push_step(rg)
    /\ UNCHANGED ringRest

\* The producer's thread drops the RingProducer.
DropProducer ==
    /\ rg.ppc = "idle"
    /\ rg' = [rg EXCEPT !.ppc = "store_done"]
    /\ UNCHANGED ringRest

DropStep ==
    /\ rg' \in producer_drop_step(rg)
    /\ UNCHANGED ringRest

\* The consumer's thread calls pop, until pop has returned None.
Pop ==
    /\ rg.cpc = "idle"
    /\ IF rg.popped = <<>> THEN TRUE ELSE rg.popped[Len(rg.popped)] /= None
    /\ rg' = [rg EXCEPT !.cpc = "try_pop"]
    /\ UNCHANGED ringRest

PopStep ==
    /\ rg' \in pop_step(rg)
    /\ UNCHANGED ringRest

\* condvar.wait may return without a notification.
SpuriousWakeup ==
    /\ \E t \in rg.blocked : rg' = wake(rg, t)
    /\ UNCHANGED ringRest

RingNext ==
    \/ Push
    \/ PushStep
    \/ DropProducer
    \/ DropStep
    \/ Pop
    \/ PopStep
    \/ SpuriousWakeup

RingSpec == RingInit /\ [][RingNext]_vars

\* The items pop has returned, in order.
PoppedItems == SelectSeq(rg.popped, IsSome)

\* C18: pop returns the pushed items in push order, each once, and returns
\* None only after the producer has been dropped and every pushed item has
\* been popped.
C18_RingDelivery ==
    /\ \A j \in 1..Len(PoppedItems) : PoppedItems[j] = Some(j)
    /\ Len(PoppedItems) <= rg.pushed
    /\ \A j \in 1..Len(rg.popped) :
           rg.popped[j] = None =>
               /\ j = Len(rg.popped)
               /\ rg.ppc \in {"drop_lock", "drop_notify", "dropped"}
               /\ Len(PoppedItems) = rg.pushed
               /\ is_empty(rg)

\* Through a ring of one slot every item was pushed and popped, the producer
\* was dropped, and pop has returned None.
C18_Witness ==
    /\ rg.pushed = MaxItems
    /\ rg.popped = <<Some(1), Some(2), Some(3), None>>
    /\ rg.ppc = "dropped"
    /\ rg.cap = 1

\* An item is taken by the pop that has seen done.
C18_LastPopTakes ==
    /\ rg.cpc = "last_pop"
    /\ ~is_empty(rg)

(***************************************************************************)
(* The scan, one outer step at a time (specification ScanSpec): calls of   *)
(* BsdiffIterator::next on one iterator, each a run of turns of the outer  *)
(* loop, until next has returned None MaxNoneCalls times.  sc.last holds   *)
(* what the latest outer step did.                                         *)
(***************************************************************************)
\* Calls of next an exhausted iterator gets.
MaxNoneCalls == 2

\* One turn of `while self.scan < nbuflen`, given the end r of its inner
\* loop: the emit step, or the next turn of the loop.
outer_step_from(r, o, n) ==
    IF r.panic
    THEN [it |-> r.it, out |-> None, panic |-> TRUE, inner |-> r.it]
    ELSE IF r.it.length /= r.oldscore \/ r.it.scan = Len(n)
    THEN [it |-> emit_step(r.it, o, n).it, out |-> emit_step(r.it, o, n).out,
          panic |-> emit_step(r.it, o, n).panic, inner |-> r.it]
    ELSE [it |-> r.it, out |-> None, panic |-> FALSE, inner |-> r.it]

outer_step(it, o, n, idx) ==
    outer_step_from(inner_loop([it EXCEPT !.scan = it.scan + it.length],
                               o, n, idx, 0, it.scan + it.length),
                    o, n)

NoStep ==
    [first |-> FALSE, from |-> 0, to |-> 0, emitted |-> FALSE, out |-> None,
     inner |-> iter_new]

\* A pair whose second Match overlaps the first by 5 bytes, 4 of which the
\* resolution leaves with the first.
SharedOlder == <<1, 1, 1, 1, 1, 1, 0, 1, 0, 1, 0, 1, 0, 1, 0, 1, 0>>

SharedNewer == <<1, 1, 1, 1, 1, 0, 1, 0, 1, 0, 1, 0, 1, 0, 1>>

\* A pair with an outer step that ends on a stalemate behind the first
\* Match, when lastoffset is -1.
StalemateOlder == <<0, 1, 0, 1, 0, 1, 0, 1, 0, 1, 1, 1, 0, 1, 0, 1, 0>>

StalemateNewer == <<1, 0, 1, 0, 1, 0, 1, 0, 1, 0, 1, 0, 1, 0, 1, 0, 1>>

ScanInputs ==
    (Olders \X Newers)
        \cup {<<SharedOlder, SharedNewer>>, <<StalemateOlder, StalemateNewer>>}

ScanInit ==
    /\ \E p \in ScanInputs :
           /\ obuf = p[1] /\ nbuf = p[2]
           /\ index = new_index(p[1], BlockSize)
    /\ sc = [it |-> iter_new, at_call |-> iter_new, incall |-> FALSE, calls |-> <<>>,
             steps |-> 0, panicked |-> FALSE, last |-> NoStep]
    /\ params = [block_size |-> BlockSize, scan_chunk_size |-> None]
    /\ iters = Idle /\ emitted = Idle /\ rings = Idle /\ wdone = Idle
    /\ cons = 0 /\ seen = <<>> /\ tr = translator_new /\ controls = <<>> /\ sent = 0
    /\ rets = <<>> /\ ap = applier_new /\ pc = "idle"
    /\ ix = Idle /\ ins = Idle /\ lk = Idle /\ pt = Idle
    /\ rd = Idle /\ rg = Idle /\ dp = Idle /\ cb = Idle

scanRest == <<runVars, indexVars, pt, rd, rg, dp, cb>>

NoneCalls == Len(SelectSeq(sc.calls, LAMBDA c : c = None))

\* The caller calls next.
CallNext ==
    /\ ~sc.incall /\ ~sc.panicked
    /\ NoneCalls < MaxNoneCalls
    /\ sc' = [sc EXCEPT !.incall = TRUE, !.at_call = sc.it]
    /\ UNCHANGED scanRest

OuterStepTurn(r) ==
    /\ sc' = [sc EXCEPT !.it = r.it,
                        !.steps = @ + 1,
                        !.panicked = r.panic,
                        !.incall = ~(IsSome(r.out) \/ r.panic),
                        !.calls = IF IsSome(r.out) THEN Append(@, r.out) ELSE @,
                        !.last = [first |-> sc.steps = 0, from |-> sc.it.scan,
                                  to |-> r.it.scan, emitted |-> IsSome(r.out),
                                  out |-> r.out, inner |-> r.inner]]
    /\ UNCHANGED scanRest

\* One turn of the outer loop of next.
OuterStep ==
    /\ sc.incall
    /\ sc.it.scan < Len(nbuf)
    /\ OuterStepTurn(outer_step(sc.it, obuf, nbuf, index))

\* The outer loop ends: next returns None.
ReturnNone ==
    /\ sc.incall
    /\ ~(sc.it.scan < Len(nbuf))
    /\ sc' = [sc EXCEPT !.incall = FALSE, !.calls = Append(@, None)]
    /\ UNCHANGED scanRest

ScanNext ==
    \/ CallNext
    \/ OuterStep
    \/ ReturnNone

ScanSpec == ScanInit /\ [][ScanNext]_vars

\* The turns of the outer loop add up to next: a call that has returned
\* has returned what next returns on the iterator it was called on.
StepsAreNext ==
    ~sc.incall /\ ~sc.panicked /\ sc.calls /= <<>> =>
        /\ sc.calls[Len(sc.calls)] = next(sc.at_call, obuf, nbuf, index).out
        /\ sc.it = next(sc.at_call, obuf, nbuf, index).it

\* What C19 says of scan apart from its strict growth: it never decreases
\* and never exceeds |nbuf|; the outer steps, hence the Matches, are
\* finitely many; a call at scan >= |nbuf| returns None and so does every
\* later call, and no call returns None before.
ScanBounded ==
    /\ ~sc.panicked
    /\ sc.it.scan <= Len(nbuf)
    /\ sc.last.from <= sc.last.to
    /\ sc.steps <= Len(nbuf) + 1
    /\ Len(SelectSeq(sc.calls, IsSome)) <= sc.steps
    /\ \A j \in 1..Len(sc.calls) :
           sc.calls[j] = None =>
               /\ sc.it.scan >= Len(nbuf)
               /\ \A k \in j..Len(sc.calls) : sc.calls[k] = None

\* C19, as claimed: every call of next terminates and the Matches are
\* finitely many; scan never decreases, strictly increases across an outer
\* step that does not emit, never exceeds |nbuf|, and from scan >= |nbuf|
\* on every call returns None.
C19_AsClaimed ==
    /\ ScanBounded
    /\ sc.steps > 0 /\ ~sc.last.emitted => sc.last.to > sc.last.from

\* C19, amended: as claimed, but scan strictly increases across an outer
\* step that does not emit unless it is the first outer step of the
\* iterator, which may end on a stalemate at scan = 0; an outer step that
\* does not emit leaves length > 0, which the next outer step adds to scan.
C19_ScanTermination ==
    /\ ScanBounded
    /\ sc.steps > 0 /\ ~sc.last.emitted =>
           /\ sc.last.to > sc.last.from \/ sc.last.first
           /\ sc.it.length > 0
           /\ sc.it.scan + sc.it.length <= Len(nbuf)

\* The first outer step ends on a stalemate at scan = 0 and emits nothing.
C19_StalemateAtZero ==
    /\ sc.steps = 1 /\ sc.last.first /\ ~sc.last.emitted
    /\ sc.last.from = 0 /\ sc.last.to = 0
    /\ sc.it.length > 0

\* A later outer step that does not emit, across which scan has grown.
C19_Witness ==
    /\ sc.steps >= 2 /\ ~sc.last.emitted
    /\ sc.last.to > sc.last.from
    /\ sc.it.length > 0

\* The iterator exhausted: next has returned Matches, then None on every
\* further call.
C19_Exhausted ==
    /\ sc.steps >= 3
    /\ NoneCalls = MaxNoneCalls
    /\ Len(sc.calls) >= MaxNoneCalls + 2

(***************************************************************************)
(* The overlap resolution of the latest emit step of ScanSpec: sc.last.inner*)
(* is the iterator the emit step started from.                             *)
(***************************************************************************)
\* lenf and lenb as the two extension loops of the emit step leave them.
forward_extension(it, o, n) ==
    lenf_loop(Slice(o, it.lastpos,
                    it.lastpos + Min(it.scan - it.lastscan, Len(o) - it.lastpos)),
              Slice(n, it.lastscan,
                    it.lastscan + Min(it.scan - it.lastscan, Len(o) - it.lastpos)),
              0, Min(it.scan - it.lastscan, Len(o) - it.lastpos), 0, 0, 0)

backward_extension(it, o, n) ==
    IF it.scan >= Len(n) THEN 0
    ELSE lenb_loop(Slice(o, it.pos - Min(it.scan - it.lastscan, it.pos), it.pos),
                   Slice(n, it.scan - Min(it.scan - it.lastscan, it.pos), it.scan),
                   1, Min(it.scan - it.lastscan, it.pos), 0, 0, 0)

\* let overlap = (self.lastscan + lenf) - (self.scan - lenb)
overlap_of(it, lenf, lenb) == (it.lastscan + lenf) - (it.scan - lenb)

\* lens, from the four slices of the overlap.
overlap_lens(it, o, n, lenf, lenb) ==
    lens_loop(Slice(n, it.lastscan + lenf - overlap_of(it, lenf, lenb), it.lastscan + lenf),
              Slice(o, it.lastpos + lenf - overlap_of(it, lenf, lenb), it.lastpos + lenf),
              Slice(n, it.scan - lenb, it.scan - lenb + overlap_of(it, lenf, lenb)),
              Slice(o, it.pos - lenb, it.pos - lenb + overlap_of(it, lenf, lenb)),
              0, overlap_of(it, lenf, lenb), 0, 0, 0)

LastLenf == forward_extension(sc.last.inner, obuf, nbuf)

LastLenb == backward_extension(sc.last.inner, obuf, nbuf)

LastOverlap == overlap_of(sc.last.inner, LastLenf, LastLenb)

LastLens == overlap_lens(sc.last.inner, obuf, nbuf, LastLenf, LastLenb)

LastResolved == resolve_overlap(sc.last.inner, obuf, nbuf, LastLenf, LastLenb)

\* The latest outer step emitted, and lastscan + lenf > scan - lenb.
LastscanWasBetter ==
    /\ sc.last.emitted
    /\ sc.last.inner.lastscan + LastLenf > sc.last.inner.scan - LastLenb

\* The emit step is the two extensions, the resolution and the Match.
EmitIsResolved ==
    sc.last.emitted =>
        sc.last.out = Some(make_match(sc.last.inner, LastResolved.lenf, LastResolved.lenb))

OverlapArithmetic(it, lenf, lenb, ov, lens, ro) ==
    /\ ov <= lenf /\ ov <= lenb
    /\ 0 <= lens /\ lens <= ov
    /\ lenf + lens >= ov
    /\ lenb >= lens
    /\ SliceOK(nbuf, it.lastscan + lenf - ov, it.lastscan + lenf)
    /\ SliceOK(obuf, it.lastpos + lenf - ov, it.lastpos + lenf)
    /\ SliceOK(nbuf, it.scan - lenb, it.scan - lenb + ov)
    /\ SliceOK(obuf, it.pos - lenb, it.pos - lenb + ov)
    /\ ro.ok
    /\ ro.lenf = lenf + lens - ov
    /\ ro.lenb = lenb - lens
    /\ it.lastscan + ro.lenf = it.scan - ro.lenb

\* C20: whenever lastscan + lenf > scan - lenb, the overlap is at most lenf
\* and at most lenb, lens lies in [0, overlap], the updates of lenf and lenb
\* do not underflow, the four slices of the overlap are in bounds, and
\* afterwards lastscan + lenf = scan - lenb: the Match emitted has an empty
\* COPY region.
C20_OverlapResolution ==
    /\ EmitIsResolved
    /\ LastscanWasBetter =>
           /\ OverlapArithmetic(sc.last.inner, LastLenf, LastLenb, LastOverlap,
                                LastLens, LastResolved)
           /\ Unwrap(sc.last.out).add_new_start + Unwrap(sc.last.out).add_length
                  = Unwrap(sc.last.out).copy_end

\* An overlap that is shared out: part of it stays with the last match
\* (lens > 0), part of it goes to the current one (lens < overlap).
C20_Witness ==
    /\ LastscanWasBetter
    /\ LastLens > 0
    /\ LastLens < LastOverlap

\* An overlap that goes to the current match whole.
C20_LensZero ==
    /\ LastscanWasBetter
    /\ LastLens = 0

(***************************************************************************)
(* The scan, one turn of the 'inner loop at a time (specification          *)
(* InnerSpec): sc.where tells where next stands ("idle" between calls,     *)
(* "top" at the test of the outer loop, "inner" at the test of the 'inner  *)
(* loop, "after" behind it); sc.test holds what the latest turn of 'inner  *)
(* tested and sc.query the lookup it made.                                 *)
(***************************************************************************)
\* The lookup of one turn of 'inner.
inner_query(it, n, idx) ==
    IF IsSome(it.cached_hash)
    THEN longest_substring_match_with_hash(idx, Slice(n, it.scan, Len(n)),
                                           Unwrap(it.cached_hash))
    ELSE longest_substring_match(idx, Slice(n, it.scan, Len(n)))

\* The rest of the turn: break, or count the byte left behind and move on.
inner_turn_decided(it, o, n, idx, res, score, scsc2) ==
    IF (res.len = score /\ res.len /= 0) \/ res.len > score + 8
    THEN [it |-> [it EXCEPT !.pos = res.start, !.length = res.len,
                            !.cached_hash =
                                IF it.scan + res.len < Len(n)
                                THEN prefetch_block(idx, Slice(n, it.scan + res.len, Len(n)))
                                ELSE None],
          oldscore |-> score, scsc |-> scsc2, broke |-> TRUE, panic |-> FALSE,
          test |-> [scan |-> it.scan, length |-> res.len, oldscore |-> score,
                    scsc |-> scsc2, lastoffset |-> it.lastoffset]]
    ELSE [it |-> [it EXCEPT !.pos = res.start, !.length = res.len,
                            !.cached_hash =
                                IF it.scan + 1 < Len(n)
                                THEN prefetch_block(idx, Slice(n, it.scan + 1, Len(n)))
                                ELSE None,
                            !.scan = it.scan + 1],
          oldscore |-> score - Bool2Int(/\ it.scan + it.lastoffset >= 0
                                        /\ it.scan + it.lastoffset < Len(o)
                                        /\ At(o, it.scan + it.lastoffset) = At(n, it.scan)),
          scsc |-> scsc2, broke |-> FALSE, panic |-> FALSE,
          test |-> [scan |-> it.scan, length |-> res.len, oldscore |-> score,
                    scsc |-> scsc2, lastoffset |-> it.lastoffset]]

\* The update of oldscore and scsc over the part of the match not yet scored.
inner_turn_scored(it, o, n, idx, oldscore, scsc, res) ==
    IF res.panic
    THEN [it |-> it, oldscore |-> oldscore, scsc |-> scsc, broke |-> FALSE, panic |-> TRUE,
          test |-> [scan |-> it.scan, length |-> 0, oldscore |-> oldscore,
                    scsc |-> scsc, lastoffset |-> it.lastoffset]]
    ELSE IF scsc < it.scan + res.len
    THEN inner_turn_decided(it, o, n, idx, res,
                            oldscore + oldscore_gain(o, n, it.lastoffset, scsc,
                                                     it.scan + res.len),
                            it.scan + res.len)
    ELSE inner_turn_decided(it, o, n, idx, res, oldscore, scsc)

\* One turn of 'inner: while self.scan < nbuflen.
inner_turn(it, o, n, idx, oldscore, scsc) ==
    inner_turn_scored(it, o, n, idx, oldscore, scsc, inner_query(it, n, idx))

InnerInit ==
    /\ \E p \in ScanInputs :
           /\ obuf = p[1] /\ nbuf = p[2]
           /\ index = new_index(p[1], BlockSize)
    /\ sc = [it |-> iter_new, where |-> "idle", oldscore |-> 0, scsc |-> 0,
             at_call |-> iter_new, at_top |-> iter_new, at_inner |-> iter_new,
             calls |-> <<>>, turns |-> 0, steps |-> 0, emitted |-> FALSE, broke |-> FALSE,
             panicked |-> FALSE, test |-> None, query |-> None]
    /\ params = [block_size |-> BlockSize, scan_chunk_size |-> None]
    /\ iters = Idle /\ emitted = Idle /\ rings = Idle /\ wdone = Idle
    /\ cons = 0 /\ seen = <<>> /\ tr = translator_new /\ controls = <<>> /\ sent = 0
    /\ rets = <<>> /\ ap = applier_new /\ pc = "idle"
    /\ ix = Idle /\ ins = Idle /\ lk = Idle /\ pt = Idle
    /\ rd = Idle /\ rg = Idle /\ dp = Idle /\ cb = Idle

\* The caller calls next.
NextCall ==
    /\ sc.where = "idle" /\ ~sc.panicked
    /\ NoneCalls < MaxNoneCalls
    /\ sc' = [sc EXCEPT !.where = "top", !.at_call = sc.it]
    /\ UNCHANGED scanRest

\* while self.scan < nbuflen: the head of a turn of the outer loop, or the
\* end of the loop and of the call.
OuterTop ==
    /\ sc.where = "top"
    /\ sc' = IF sc.it.scan < Len(nbuf)
             THEN [sc EXCEPT !.where = "inner",
                             !.at_top = sc.it,
                             !.oldscore = 0,
                             !.it.scan = sc.it.scan + sc.it.length,
                             !.scsc = sc.it.scan + sc.it.length,
                             !.at_inner = [sc.it EXCEPT !.scan = sc.it.scan + sc.it.length],
                             !.broke = FALSE]
             ELSE [sc EXCEPT !.where = "idle", !.calls = Append(@, None)]
    /\ UNCHANGED scanRest

InnerTurnOf(r) ==
    /\ sc' = [sc EXCEPT !.it = r.it, !.oldscore = r.oldscore, !.scsc = r.scsc,
                        !.broke = r.broke, !.panicked = r.panic,
                        !.where = IF r.panic THEN "idle"
                                  ELSE IF r.broke THEN "after" ELSE "inner",
                        !.turns = @ + 1,
                        !.test = Some(r.test),
                        !.query = Some([scan |-> sc.it.scan, h |-> sc.it.cached_hash,
                                        after |-> IF sc.it = sc.at_inner
                                                  THEN IF sc.at_call = sc.at_top
                                                       THEN "call" ELSE "outer"
                                                  ELSE "inner",
                                        res |-> [start |-> r.it.pos, len |-> r.it.length]])]
    /\ UNCHANGED scanRest

\* One turn of 'inner, or its end at scan = nbuflen.
InnerTurn ==
    /\ sc.where = "inner"
    /\ IF sc.it.scan < Len(nbuf)
       THEN InnerTurnOf(inner_turn(sc.it, obuf, nbuf, index, sc.oldscore, sc.scsc))
       ELSE /\ sc' = [sc EXCEPT !.where = "after"]
            /\ UNCHANGED scanRest

AfterInnerOf(r) ==
    /\ sc' = [sc EXCEPT !.it = r.it, !.steps = @ + 1, !.panicked = r.panic,
                        !.emitted = IsSome(r.out),
                        !.calls = IF IsSome(r.out) THEN Append(@, r.out) ELSE @,
                        !.where = IF IsSome(r.out) \/ r.panic THEN "idle" ELSE "top"]
    /\ UNCHANGED scanRest

\* Behind 'inner: the emit step and the return of the Match, or the next
\* turn of the outer loop.
AfterInner ==
    /\ sc.where = "after"
    /\ AfterInnerOf(outer_step_from([it |-> sc.it, oldscore |-> sc.oldscore,
                                     broke |-> sc.broke, panic |-> FALSE],
                                    obuf, nbuf))

InnerNext ==
    \/ NextCall
    \/ OuterTop
    \/ InnerTurn
    \/ AfterInner

InnerSpec == InnerInit /\ [][InnerNext]_vars

\* The turns of 'inner add up to inner_loop, and the calls to next.
TurnsAreInnerLoop ==
    /\ sc.where = "after" =>
           /\ inner_loop(sc.at_inner, obuf, nbuf, index, 0, sc.at_inner.scan).it = sc.it
           /\ inner_loop(sc.at_inner, obuf, nbuf, index, 0, sc.at_inner.scan).oldscore
                  = sc.oldscore
           /\ inner_loop(sc.at_inner, obuf, nbuf, index, 0, sc.at_inner.scan).broke
                  = sc.broke
    /\ sc.where = "idle" /\ sc.calls /= <<>> /\ ~sc.panicked =>
           /\ sc.calls[Len(sc.calls)] = next(sc.at_call, obuf, nbuf, index).out
           /\ sc.it = next(sc.at_call, obuf, nbuf, index).it

\* The i in [a, b) whose shifted old byte is in bounds and equals nbuf[i].
ShiftedEqual(a, b, lastoffset) ==
    {i \in a..(b - 1) : /\ i + lastoffset >= 0
                        /\ i + lastoffset < Len(obuf)
                        /\ i < Len(nbuf)
                        /\ At(obuf, i + lastoffset) = At(nbuf, i)}

Tested == Unwrap(sc.test)

\* C21: whenever the inner loop tests for a better match or a stalemate,
\* oldscore is the number of i in [scan, scsc) whose shifted old byte is in
\* bounds and equals nbuf[i], with scsc >= scan + length, so it is never
\* negative; the inner loop breaks only with length >= block_size.
C21_Oldscore ==
    /\ ~sc.panicked
    /\ IsSome(sc.test) =>
           /\ Tested.oldscore
                  = Cardinality(ShiftedEqual(Tested.scan, Tested.scsc, Tested.lastoffset))
           /\ Tested.scsc >= Tested.scan + Tested.length
           /\ Tested.scsc <= Len(nbuf)
           /\ Tested.oldscore >= 0
    /\ sc.broke => sc.it.length >= params.block_size /\ sc.it.length /= 0

\* A test behind an emitted Match (lastoffset /= 0), with bytes scored for
\* an earlier, longer match still ahead of scan + length.
C21_Witness ==
    /\ IsSome(sc.test)
    /\ sc.turns >= 3
    /\ Tested.lastoffset /= 0
    /\ Tested.oldscore > 0
    /\ Tested.scsc > Tested.scan + Tested.length

\* A test whose scored range runs past the end of obuf (the slow path).
C21_PastOldEnd ==
    /\ IsSome(sc.test)
    /\ Tested.scsc + Tested.lastoffset > Len(obuf)
    /\ Tested.oldscore > 0

\* A break on a stalemate and a break on a better match.
C21_BrokeOnStalemate ==
    /\ sc.where = "after" /\ sc.broke
    /\ sc.it.length = sc.oldscore

C21_BrokeOnBetter ==
    /\ sc.where = "after" /\ sc.broke
    /\ sc.it.length > sc.oldscore + 8

CursorInvariant(it) ==
    /\ it.lastoffset = it.lastpos - it.lastscan
    /\ it.lastscan <= it.scan
    /\ it.scan <= Len(nbuf)
    /\ 0 <= it.lastscan
    /\ 0 <= it.lastpos
    /\ it.lastpos <= Len(obuf)

\* C22: between calls of next, lastoffset = lastpos - lastscan,
\* lastscan <= scan <= |nbuf| and lastpos <= |obuf|; an emit step keeps
\* this, and an outer step that does not emit leaves lastscan, lastpos and
\* lastoffset as they were.
C22_CursorInvariant ==
    /\ sc.where = "idle" => CursorInvariant(sc.it)
    /\ sc.where = "top" /\ sc.steps > 0 /\ ~sc.emitted =>
           /\ sc.it.lastscan = sc.at_top.lastscan
           /\ sc.it.lastpos = sc.at_top.lastpos
           /\ sc.it.lastoffset = sc.at_top.lastoffset
           /\ CursorInvariant(sc.it)

\* Between two calls, behind a second Match, with the cursors of the old
\* buffer behind those of the new one.
C22_Witness ==
    /\ sc.where = "idle"
    /\ Len(sc.calls) >= 2 /\ sc.emitted
    /\ sc.it.lastoffset < 0
    /\ sc.it.lastpos > 0
    /\ sc.it.scan < Len(nbuf)

\* Between two calls with the old cursors ahead, and behind an outer step
\* that emitted nothing.
C22_OldAhead ==
    /\ sc.where = "idle" /\ sc.emitted
    /\ sc.it.lastoffset > 0

C22_NoEmit ==
    /\ sc.where = "top" /\ sc.steps > 1 /\ ~sc.emitted
    /\ sc.it.lastoffset /= 0

(***************************************************************************)
(* The two extensions of the latest emit step of ScanSpec against their    *)
(* definition as the shortest length of best score.                        *)
(***************************************************************************)
\* n of the forward and of the backward extension.
ForwardRoom(it) == Min(it.scan - it.lastscan, Len(obuf) - it.lastpos)

BackwardRoom(it) == Min(it.scan - it.lastscan, it.pos)

\* 2 * m(L) - L and 2 * mb(L) - L.
ForwardScore(it, len) ==
    2 * Cardinality({i \in 0..(len - 1) :
                         At(obuf, it.lastpos + i) = At(nbuf, it.lastscan + i)}) - len

BackwardScore(it, len) ==
    2 * Cardinality({i \in 1..len : At(obuf, it.pos - i) = At(nbuf, it.scan - i)}) - len

\* len is the smallest length of 0..room whose score is the greatest.
ShortestBestForward(it, len) ==
    /\ len \in 0..ForwardRoom(it)
    /\ \A k \in 0..ForwardRoom(it) : ForwardScore(it, k) <= ForwardScore(it, len)
    /\ \A k \in 0..(len - 1) : ForwardScore(it, k) < ForwardScore(it, len)

ShortestBestBackward(it, len) ==
    /\ len \in 0..BackwardRoom(it)
    /\ \A k \in 0..BackwardRoom(it) : BackwardScore(it, k) <= BackwardScore(it, len)
    /\ \A k \in 0..(len - 1) : BackwardScore(it, k) < BackwardScore(it, len)

\* C23: the forward extension returns the smallest L of [0, n] that
\* maximizes 2 * m(L) - L; the backward extension returns 0 when
\* scan >= |nbuf| and otherwise the smallest L of [0, min(scan - lastscan,
\* pos)] that maximizes 2 * mb(L) - L.
C23_ExtensionScoring ==
    /\ EmitIsResolved
    /\ sc.last.emitted =>
           /\ ShortestBestForward(sc.last.inner, LastLenf)
           /\ IF sc.last.inner.scan >= Len(nbuf)
              THEN LastLenb = 0
              ELSE ShortestBestBackward(sc.last.inner, LastLenb)

\* A forward extension that stops short of its room, across bytes that
\* differ, where a longer length scores the same.
C23_Witness ==
    /\ sc.last.emitted
    /\ 0 < LastLenf /\ LastLenf < ForwardRoom(sc.last.inner)
    /\ ForwardScore(sc.last.inner, LastLenf) < LastLenf
    /\ \E k \in (LastLenf + 1)..ForwardRoom(sc.last.inner) :
           ForwardScore(sc.last.inner, k) = ForwardScore(sc.last.inner, LastLenf)

\* A backward extension across a byte that differs, and the emit step at
\* the end of nbuf, where there is none.
C23_BackwardAcross ==
    /\ sc.last.emitted
    /\ sc.last.inner.scan < Len(nbuf)
    /\ 0 < LastLenb
    /\ BackwardScore(sc.last.inner, LastLenb) < LastLenb

C23_BackwardAtEnd ==
    /\ sc.last.emitted
    /\ sc.last.inner.scan >= Len(nbuf)
    /\ sc.last.inner.scan > sc.last.inner.lastscan
    /\ LastLenb = 0

Queried == Unwrap(sc.query)

\* C24: whenever a turn of the inner loop calls
\* longest_substring_match_with_hash(nbuf[scan..], h) with a cached hash h,
\* a whole block lies at scan and h is the hash of that block: after
\* scan += 1, after a break followed by scan += length, and across calls of
\* next.
C24_CachedHashValid ==
    IsSome(sc.query) /\ IsSome(Queried.h) =>
        /\ Queried.scan + params.block_size <= Len(nbuf)
        /\ Unwrap(Queried.h)
               = hash_block(Slice(nbuf, Queried.scan, Queried.scan + params.block_size))

\* A cached hash used by the first query of a call of next, after the
\* previous call broke out of the inner loop and returned a Match.
C24_Witness ==
    /\ IsSome(sc.query) /\ IsSome(Queried.h)
    /\ Queried.after = "call"
    /\ Queried.scan > sc.at_call.scan
    /\ Queried.res.len > 0

\* A cached hash used after scan += 1.
C24_AfterStep ==
    /\ IsSome(sc.query) /\ IsSome(Queried.h)
    /\ Queried.after = "inner"

\* A cached hash used after a break and scan += length within one call.
C24_AfterBreak ==
    /\ IsSome(sc.query) /\ IsSome(Queried.h)
    /\ Queried.after = "outer"
    /\ sc.at_top.length > 0

(***************************************************************************)
(* The scan loop of crates/bidiff (specification CrateSpec).  Its 'inner   *)
(* loop differs from that of src/src/lib.rs in what it leaves in           *)
(* cached_hash when it breaks; the rest of next is the same.               *)
(***************************************************************************)
\* The rest of a turn of 'inner in crates/bidiff: cached_hash was set to the
\* prefetch for scan + 1 right after the lookup, and the break leaves it.
bidiff_turn_decided(it, o, n, idx, res, score, scsc2) ==
    IF (res.len = score /\ res.len /= 0) \/ res.len > score + 8
    THEN [it |-> [it EXCEPT !.pos = res.start, !.length = res.len,
                            !.cached_hash =
                                IF it.scan + 1 < Len(n)
                                THEN prefetch_block(idx, Slice(n, it.scan + 1, Len(n)))
                                ELSE None],
          oldscore |-> score, scsc |-> scsc2, broke |-> TRUE, panic |-> FALSE,
          test |-> [scan |-> it.scan, length |-> res.len, oldscore |-> score,
                    scsc |-> scsc2, lastoffset |-> it.lastoffset]]
    ELSE [it |-> [it EXCEPT !.pos = res.start, !.length = res.len,
                            !.cached_hash =
                                IF it.scan + 1 < Len(n)
                                THEN prefetch_block(idx, Slice(n, it.scan + 1, Len(n)))
                                ELSE None,
                            !.scan = it.scan + 1],
          oldscore |-> score - Bool2Int(/\ it.scan + it.lastoffset >= 0
                                        /\ it.scan + it.lastoffset < Len(o)
                                        /\ At(o, it.scan + it.lastoffset) = At(n, it.scan)),
          scsc |-> scsc2, broke |-> FALSE, panic |-> FALSE,
          test |-> [scan |-> it.scan, length |-> res.len, oldscore |-> score,
                    scsc |-> scsc2, lastoffset |-> it.lastoffset]]

bidiff_turn_scored(it, o, n, idx, oldscore, scsc, res) ==
    IF res.panic
    THEN [it |-> it, oldscore |-> oldscore, scsc |-> scsc, broke |-> FALSE, panic |-> TRUE,
          test |-> [scan |-> it.scan, length |-> 0, oldscore |-> oldscore,
                    scsc |-> scsc, lastoffset |-> it.lastoffset]]
    ELSE IF scsc < it.scan + res.len
    THEN bidiff_turn_decided(it, o, n, idx, res,
                             oldscore + oldscore_gain(o, n, it.lastoffset, scsc,
                                                      it.scan + res.len),
                             it.scan + res.len)
    ELSE bidiff_turn_decided(it, o, n, idx, res, oldscore, scsc)

\* One turn of 'inner in crates/bidiff.
bidiff_turn(it, o, n, idx, oldscore, scsc) ==
    bidiff_turn_scored(it, o, n, idx, oldscore, scsc, inner_query(it, n, idx))

\* One turn of 'inner of crates/bidiff, or its end at scan = nbuflen.
BidiffTurn ==
    /\ sc.where = "inner"
    /\ IF sc.it.scan < Len(nbuf)
       THEN InnerTurnOf(bidiff_turn(sc.it, obuf, nbuf, index, sc.oldscore, sc.scsc))
       ELSE /\ sc' = [sc EXCEPT !.where = "after"]
            /\ UNCHANGED scanRest

CrateNext ==
    \/ NextCall
    \/ OuterTop
    \/ BidiffTurn
    \/ AfterInner

CrateSpec == InnerInit /\ [][CrateNext]_vars

\* What an uncached longest_substring_match finds at the queried position.
Uncached == longest_substring_match(index, Slice(nbuf, Queried.scan, Len(nbuf)))

\* C25: every index query of next in crates/bidiff returns the (start, len)
\* of an uncached longest_substring_match(&nbuf[scan..]) at the current scan
\* position, the first query after a break and scan += length included.
C25_QueryIsUncached ==
    IsSome(sc.query) =>
        /\ Queried.res.start = Uncached.start
        /\ Queried.res.len = Uncached.len

\* The first query after a break is made with the hash of the block at
\* scan + 1 of the turn that broke, and misses a match that is there.
C25_StaleHash ==
    /\ IsSome(sc.query) /\ IsSome(Queried.h)
    /\ Queried.after /= "inner"
    /\ Unwrap(Queried.h)
           /= hash_block(Slice(nbuf, Queried.scan, Queried.scan + params.block_size))
    /\ Queried.res.len = 0
    /\ Uncached.len > 0

\* Between breaks the queries of crates/bidiff are those of an uncached
\* lookup.
C25_FreshAfterStep ==
    IsSome(sc.query) /\ Queried.after = "inner" =>
        /\ Queried.res.start = Uncached.start
        /\ Queried.res.len = Uncached.len

(***************************************************************************)
(* Reader::read, one turn of its while loop at a time (specification       *)
(* MachineSpec).  rd.r is the Reader, rd.where tells where the caller      *)
(* stands ("new" before Reader::new, "idle" between reads, "loop" at the   *)
(* test of the while loop, "err" after an Err); rd.prev is the Reader      *)
(* before the latest turn, rd.at_call the Reader when the latest read was  *)
(* called, rd.ret what that read returned, and rd.records the number of    *)
(* records read to their end.                                              *)
(***************************************************************************)
MaxFinalReads == 2

\* The caller's buffer lengths of a read call, the empty buffer included.
MachineReadSizes == {0, 1, 3, 64}

machine_input(patch, old, cs, plain) ==
    [patch |-> patch, old |-> old, cs |-> cs, plain |-> plain,
     r |-> reader_failed("none"), where |-> "new", space |-> 0, want |-> 0, got |-> 0,
     prev |-> None, at_call |-> None, ret |-> None, records |-> 0,
     finals |-> 0]

MachineOf(o, n, cs) ==
    \/ rd = machine_input(writer_new(Len(n)) \o plain_records(cs), o, cs, TRUE)
    \/ \E k \in CutsOf(writer_new(Len(n)) \o plain_records(cs)) :
           k >= 16 /\ rd = machine_input(SubSeq(writer_new(Len(n)) \o plain_records(cs),
                                               1, k), o, cs, TRUE)
    \/ rd = machine_input(writer_new(Len(n)) \o tagged_records(cs), o, cs, FALSE)

MachineInit ==
    /\ \/ \E p \in StreamPairs :
              MachineOf(p[1], p[2], controls_of(p[1], p[2], scan_all(p[1], p[2])))
       \/ MachineOf(LongBuf, LongBuf, controls_of(LongBuf, LongBuf, LongMatches))
    /\ rg = Idle /\ sc = Idle /\ dp = Idle /\ cb = Idle
    /\ RunIdle
    /\ ix = Idle /\ ins = Idle /\ lk = Idle /\ pt = Idle

\* Reader::new(patch, old)
MachineNew ==
    /\ rd.where = "new"
    /\ rd' = [rd EXCEPT !.r = reader_new(rd.patch, rd.old),
                        !.where = IF reader_new(rd.patch, rd.old).err /= "none"
                                  THEN "err" ELSE "idle"]
    /\ UNCHANGED readerRest

\* The caller calls read with a buffer of `space` bytes.
ReadCall ==
    /\ rd.where = "idle"
    /\ rd.finals < MaxFinalReads
    /\ \E space \in MachineReadSizes :
           rd' = [rd EXCEPT !.where = "loop", !.space = space, !.want = space,
                            !.got = 0, !.at_call = Some(rd.r), !.prev = None, !.ret = None,
                            !.finals = IF rd.r.state = "Final" THEN @ + 1 ELSE @]
    /\ UNCHANGED readerRest

ReadTurnOf(t) ==
    rd' = IF t.r.err /= "none"
          THEN [rd EXCEPT !.r = t.r, !.prev = Some(rd.r), !.where = "err"]
          ELSE [rd EXCEPT !.r = t.r, !.prev = Some(rd.r),
                          !.space = @ - Len(t.bytes), !.got = @ + Len(t.bytes),
                          !.records = IF rd.r.state = "Copy" /\ t.r.state = "Initial"
                                      THEN @ + 1 ELSE @]

\* while !buf.is_empty(): one turn of the match on self.state.
ReadTurn ==
    /\ rd.where = "loop"
    /\ rd.space > 0
    /\ rd.r.state /= "Final"
    /\ ReadTurnOf(reader_turn(rd.r, rd.space))
    /\ UNCHANGED readerRest

\* The end of the loop on an empty buffer or the break in Final: Ok(read).
ReadReturn ==
    /\ rd.where = "loop"
    /\ rd.space = 0 \/ rd.r.state = "Final"
    /\ rd' = [rd EXCEPT !.where = "idle", !.ret = Some(rd.got), !.prev = None]
    /\ UNCHANGED readerRest

MachineNext ==
    \/ MachineNew
    \/ ReadCall
    \/ ReadTurn
    \/ ReadReturn

MachineSpec == MachineInit /\ [][MachineNext]_vars

\* The turns of a read add up to reader_read.
TurnsAreRead ==
    /\ rd.where = "idle" /\ IsSome(rd.ret) =>
           /\ reader_read(Unwrap(rd.at_call), rd.want).r = rd.r
           /\ Len(reader_read(Unwrap(rd.at_call), rd.want).bytes) = Unwrap(rd.ret)
    /\ rd.where = "err" /\ IsSome(rd.prev) =>
           reader_read(Unwrap(rd.at_call), rd.want).r.err = rd.r.err

\* The moves of self.state the claim allows in one turn; a turn that
\* returns an Err leaves the state where it was.
LegalMove(a, b) ==
    \/ b.err /= "none" /\ b.state = a.state /\ b.n = a.n
    \/ a.state = "Initial" /\ b.state = "Add"
    \/ a.state = "Initial" /\ b.state = "Final"
           /\ read_varint(a.patch, a.ppos).err = "eof"
    \/ a.state = "Add" /\ b.state = "Add" /\ b.n < a.n
    \/ a.state = "Add" /\ b.state = "Copy"
    \/ a.state = "Copy" /\ b.state = "Copy" /\ b.n < a.n
    \/ a.state = "Copy" /\ b.state = "Initial"

\* The position of the old stream the turn leaves: an Add turn reads its
\* bytes from old, and the turn that ends a Copy seeks by the varint that
\* follows the literal bytes.
OldPosAfter(a, b) ==
    IF b.err /= "none" THEN TRUE
    ELSE IF a.state = "Add" THEN b.opos = a.opos + (a.n - (IF b.state = "Add" THEN b.n ELSE 0))
    ELSE IF a.state = "Copy" /\ b.state = "Initial"
    THEN /\ read_varint(a.patch, a.ppos + a.n).err = "none"
         /\ b.opos = a.opos + unzigzag(read_varint(a.patch, a.ppos + a.n).val)
         /\ b.ppos = read_varint(a.patch, a.ppos + a.n).pos
    ELSE b.opos = a.opos

\* Where old stands after the first k records of cs: each record reads its
\* add bytes from old and then seeks once.
RECURSIVE old_after(_, _)
old_after(cs, k) ==
    IF k = 0 THEN 0
    ELSE old_after(cs, k - 1) + Len(cs[k].add) + cs[k].seek

\* C26: Reader::read moves its state only along Initial -> Add(n) ->
\* Add(n') (n' < n) ... -> Copy(m) -> Copy(m') (m' < m) ... -> Initial, or
\* Initial -> Final on UnexpectedEof; a read called in Final returns Ok(0)
\* and stays in Final; the seek varint is consumed and applied to old as a
\* relative seek once per record, on the turn from Copy to Initial; and a
\* read returns fewer bytes than its buffer holds only in Final.
C26_ReaderStateMachine ==
    /\ IsSome(rd.prev) =>
           /\ LegalMove(Unwrap(rd.prev), rd.r)
           /\ OldPosAfter(Unwrap(rd.prev), rd.r)
    /\ rd.where \in {"idle", "loop"} /\ IsSome(rd.at_call)
           /\ Unwrap(rd.at_call).state = "Final" =>
           /\ rd.r.state = "Final"
           /\ rd.got = 0
           /\ (IsSome(rd.ret) => Unwrap(rd.ret) = 0)
    /\ rd.plain /\ rd.where \in {"idle", "loop"} /\ rd.r.state = "Initial" =>
           /\ rd.records <= Len(rd.cs)
           /\ rd.r.opos = old_after(rd.cs, rd.records)
           /\ rd.r.ppos = 16 + Len(plain_records(SubSeq(rd.cs, 1, rd.records)))
    /\ rd.where = "idle" /\ IsSome(rd.ret) /\ Unwrap(rd.ret) < rd.want =>
           rd.r.state = "Final"

\* A read that comes back short at the end of a stream of two records, the
\* first of which seeks old away from where its ADD ended.
C26_Witness ==
    /\ rd.where = "idle" /\ IsSome(rd.ret)
    /\ Unwrap(rd.ret) > 0 /\ Unwrap(rd.ret) < rd.want
    /\ rd.r.state = "Final"
    /\ rd.plain /\ rd.records = 2
    /\ rd.cs[1].seek /= 0

\* An ADD handed out over several turns.
C26_AddInParts ==
    /\ IsSome(rd.prev) /\ rd.r.err = "none"
    /\ Unwrap(rd.prev).state = "Add" /\ rd.r.state = "Add"
    /\ rd.r.n > 0

\* A COPY handed out over several turns.
C26_CopyInParts ==
    /\ IsSome(rd.prev) /\ rd.r.err = "none"
    /\ Unwrap(rd.prev).state = "Copy" /\ rd.r.state = "Copy"
    /\ rd.r.n > 0

\* A read called after Final was reached.
C26_ReadInFinal ==
    /\ rd.where = "idle" /\ IsSome(rd.at_call) /\ Unwrap(rd.at_call).state = "Final"
    /\ rd.want > 0 /\ rd.ret = Some(0)
    /\ rd.finals = MaxFinalReads

\* A seek back in old at the end of a record.
C26_SeekBack ==
    /\ IsSome(rd.prev) /\ rd.r.err = "none"
    /\ Unwrap(rd.prev).state = "Copy" /\ rd.r.state = "Initial"
    /\ rd.r.opos < Unwrap(rd.prev).opos

(***************************************************************************)
(* The table after population (specification IndexSpec).                   *)
(***************************************************************************)
\* The slots (1-based) whose entry refers to a block equal to block.
SlotsOf(idx, block) ==
    {s \in 1..Len(idx.table) :
        /\ idx.table[s] /= EMPTY
        /\ SliceOK(idx.text, entry_offset(idx.table[s]),
                   entry_offset(idx.table[s]) + idx.block_size)
        /\ BlockAt(idx.text, entry_offset(idx.table[s]), idx.block_size) = block}

\* The smallest block-aligned offset of text at which block lies.
EarliestOffset(idx, block) ==
    CHOOSE o \in {k * idx.block_size : k \in 0..((Len(idx.text) \div idx.block_size) - 1)} :
        /\ BlockAt(idx.text, o, idx.block_size) = block
        /\ \A k \in 0..((o \div idx.block_size) - 1) :
               BlockAt(idx.text, k * idx.block_size, idx.block_size) /= block

IndexedBlocks(idx) ==
    {BlockAt(idx.text, k * idx.block_size, idx.block_size) :
        k \in 0..((Len(idx.text) \div idx.block_size) - 1)}

\* C27: after population completes, serial or parallel under every
\* interleaving of the CAS inserts, each block content among the
\* block-aligned blocks of text that is stored in the table occupies
\* exactly one slot, and the offset of that slot is the smallest
\* block-aligned offset of text with that content.
C27_EarliestOffset ==
    Quiescent =>
        \A block \in IndexedBlocks(ix) :
            SlotsOf(ix, block) /= {} =>
                /\ Cardinality(SlotsOf(ix, block)) = 1
                /\ \A s \in SlotsOf(ix, block) :
                       entry_offset(ix.table[s]) = EarliestOffset(ix, block)

\* Parallel population of a text with three equal blocks has ended with a
\* later offset in the slot of their content: the CAS of the task with the
\* smallest offset failed and the task returned.
C27_LaterOffsetKept ==
    /\ Quiescent /\ ins /= <<>>
    /\ \E block \in IndexedBlocks(ix) : \E s \in SlotsOf(ix, block) :
           entry_offset(ix.table[s]) > EarliestOffset(ix, block)

\* Every block content of the text is stored, in exactly one slot.
C27_OneSlot ==
    Quiescent =>
        \A block \in IndexedBlocks(ix) : Cardinality(SlotsOf(ix, block)) = 1

\* Serial population leaves the smallest offset of every content.
C27_SerialEarliest ==
    ins = <<>> =>
        \A block \in IndexedBlocks(ix) : \A s \in SlotsOf(ix, block) :
            entry_offset(ix.table[s]) = EarliestOffset(ix, block)

\* Parallel population of a text with at most two equal blocks of each
\* content leaves the smallest offset.
C27_PairsEarliest ==
    (/\ Quiescent /\ ins /= <<>>
     /\ \A block \in IndexedBlocks(ix) :
            Cardinality({k \in 0..((Len(ix.text) \div ix.block_size) - 1) :
                            BlockAt(ix.text, k * ix.block_size, ix.block_size) = block})
                <= 2) =>
        \A block \in IndexedBlocks(ix) : \A s \in SlotsOf(ix, block) :
            entry_offset(ix.table[s]) = EarliestOffset(ix, block)

(***************************************************************************)
(* Population step by step (specification PopulateSpec).  ins holds the    *)
(* work of populate: one insert task per block with the feature            *)
(* "parallel", of which the last MaxInFlight run together and the others   *)
(* before them, one after the other; without the feature the one loop of   *)
(* the serial path, one iteration per step.                                *)
(***************************************************************************)
MaxInFlight == 3

CrowdedParBlocks == 10

\* Texts that fill bucket 0 and overflow: the first blocks of CrowdedText.
CrowdedPrefix(k) == SubSeq(CrowdedText, 1, k * BlockSize)

PopulateTexts == IxTexts \cup {CrowdedPrefix(CrowdedParBlocks)}

\* The state of the serial path before the first iteration of its main
\* loop: the pipeline holds the last PIPE_DEPTH blocks.
serial_start(idx) ==
    [table       |-> idx.table,
     pipe_hash   |-> [k \in 1..PIPE_DEPTH |->
                         IF k - 1 < Min(PIPE_DEPTH, Len(idx.text) \div idx.block_size)
                         THEN hash_block(BlockAt(idx.text,
                                  ((Len(idx.text) \div idx.block_size) - k)
                                      * idx.block_size,
                                  idx.block_size))
                         ELSE <<0, 0, 0, 0, 0, 0, 0, 0>>],
     pipe_offset |-> [k \in 1..PIPE_DEPTH |->
                         IF k - 1 < Min(PIPE_DEPTH, Len(idx.text) \div idx.block_size)
                         THEN ((Len(idx.text) \div idx.block_size) - k) * idx.block_size
                         ELSE 0],
     head        |-> 0,
     next_idx    |-> Max((Len(idx.text) \div idx.block_size) - PIPE_DEPTH, 0),
     left        |-> Len(idx.text) \div idx.block_size]

serial_loop(st) == [pc |-> IF st.left = 0 THEN "done" ELSE "serial", st |-> st]

InitPopulate(text, block_size, parallel) ==
    /\ ix = new_empty(text, block_size)
    /\ ins = IF parallel
             THEN [n \in 1..(Len(text) \div block_size) |->
                      task_new(new_empty(text, block_size), n - 1)]
             ELSE <<serial_loop(serial_start(new_empty(text, block_size)))>>
    /\ lk = lookup_idle(0)

PopulateInit ==
    /\ \/ \E text \in PopulateTexts : \E parallel \in BOOLEAN :
              InitPopulate(text, BlockSize, parallel)
       \/ InitPopulate(CrowdedText, BlockSize, FALSE)
       \/ InitPopulate(WrapText, BlockSize, FALSE)
       \/ \E text \in IxTexts : \E parallel \in BOOLEAN :
              InitPopulate(text, BlockSize + 1, parallel)
    /\ RunIdle
    /\ pt = Idle
    /\ ExtIdle

IsSerial == ins /= <<>> /\ ins[1].pc \in {"serial", "done"} /\ "st" \in DOMAIN ins[1]

\* The last MaxInFlight tasks run together once the tasks before them have
\* returned; those run one after the other.
MayRun(n) ==
    /\ ~IsSerial
    /\ \A m \in DOMAIN ins :
           m < n /\ m + MaxInFlight <= Len(ins) => ins[m].pc = "done"

TaskGet == \E n \in DOMAIN ins : MayRun(n) /\ InsertGet(n)

TaskCasClaim == \E n \in DOMAIN ins : MayRun(n) /\ InsertCasClaim(n)

TaskCasReplace == \E n \in DOMAIN ins : MayRun(n) /\ InsertCasReplace(n)

SerialInsertOf(st) ==
    /\ ix' = [ix EXCEPT !.table = st.table]
    /\ ins' = <<serial_loop(st)>>

\* One iteration of `for _ in 0..num_entries` of the serial path.
SerialInsert ==
    /\ IsSerial
    /\ ins[1].pc = "serial"
    /\ SerialInsertOf(populate_step(ix, ins[1].st))
    /\ UNCHANGED <<lk, runVars, pt, extVars>>

PopulateNext ==
    \/ TaskGet
    \/ TaskCasClaim
    \/ TaskCasReplace
    \/ SerialInsert

PopulateSpec == PopulateInit /\ [][PopulateNext]_vars

\* The serial path, step by step, ends with the table of populate.
SerialIsPopulate ==
    IsSerial /\ ins[1].pc = "done" => ix = new_index(ix.text, ix.block_size)

NumBuckets(idx) == idx.mask + 1

BucketFull(table, b) ==
    \A i \in 1..BUCKET_SIZE : table[b * BUCKET_SIZE + i] /= EMPTY

\* hash_block of every indexed block of the texts, computed once.
BlockHashes ==
    [text \in PopulateTexts \cup {CrowdedText, WrapText} |->
        [k \in 1..(Len(text) \div BlockSize) |->
            hash_block(BlockAt(text, (k - 1) * BlockSize, BlockSize))]]

\* hash_block of the indexed block at a block-aligned offset of idx.text.
HashAt(idx, offset) ==
    IF idx.block_size = BlockSize
    THEN BlockHashes[idx.text][(offset \div idx.block_size) + 1]
    ELSE hash_block(BlockAt(idx.text, offset, idx.block_size))

\* The bucket the block at offset hashes to.
HomeBucket(idx, offset) == hash_bucket(HashAt(idx, offset), idx.mask)

\* Every bucket from home up to, not including, bucket b (modulo the number
\* of buckets) is full in table.
BetweenFull(idx, table, home, b) ==
    \A j \in 0..(((b - home) % NumBuckets(idx)) - 1) :
        BucketFull(table, (home + j) % NumBuckets(idx))

\* The entry decodes to an indexed block and carries the tag of its hash.
Decodes(idx, entry) ==
    /\ entry_offset(entry) >= 0
    /\ entry_offset(entry) % idx.block_size = 0
    /\ entry_offset(entry) + idx.block_size <= Len(idx.text)
    /\ entry_tag(entry) = SubSeq(HashAt(idx, entry_offset(entry)), 5, 8)

\* No non-EMPTY slot after an EMPTY one in a bucket, and every entry
\* decodes.
PackedTable(idx) ==
    /\ Len(idx.table) = BUCKET_SIZE * NumBuckets(idx)
    /\ \A b \in 0..(NumBuckets(idx) - 1) : \A i \in 1..(BUCKET_SIZE - 1) :
           idx.table[b * BUCKET_SIZE + i] = EMPTY
               => idx.table[b * BUCKET_SIZE + i + 1] = EMPTY
    /\ \A s \in 1..Len(idx.table) :
           idx.table[s] /= EMPTY => Decodes(idx, idx.table[s])

\* One step of population: no slot returns to EMPTY, and a slot that
\* receives an entry lies in the entry's home bucket or behind buckets that
\* are all full before the step.
SlotMoves ==
    \A s \in 1..Len(ix.table) :
        /\ ix.table[s] /= EMPTY => ix'.table[s] /= EMPTY
        /\ ix.table[s] = EMPTY /\ ix'.table[s] /= EMPTY =>
               BetweenFull(ix, ix.table, HomeBucket(ix, entry_offset(ix'.table[s])),
                           (s - 1) \div BUCKET_SIZE)

\* C28: in every table state during and after serial or parallel
\* population, within each 8-slot bucket no non-EMPTY slot comes after an
\* EMPTY slot, every non-EMPTY slot decodes to a block-aligned offset o with
\* o + block_size <= |text| and the tag of hash_block of that block; no slot
\* returns to EMPTY, and an entry goes into an overflow bucket only when
\* every bucket from its home bucket to that bucket is full.
C28_BucketPacking == [](PackedTable(ix)) /\ [][SlotMoves]_vars

\* A parallel population under way with an entry in an overflow bucket.
C28_Witness ==
    /\ ~IsSerial /\ ~Quiescent
    /\ \E s \in 1..Len(ix.table) :
           /\ ix.table[s] /= EMPTY
           /\ HomeBucket(ix, entry_offset(ix.table[s])) /= (s - 1) \div BUCKET_SIZE

\* A serial population under way with entries two buckets behind their home.
C28_SerialOverflow ==
    /\ IsSerial /\ ins[1].pc = "serial"
    /\ \E s \in 1..Len(ix.table) :
           /\ ix.table[s] /= EMPTY
           /\ ((s - 1) \div BUCKET_SIZE) - HomeBucket(ix, entry_offset(ix.table[s])) >= 2

(***************************************************************************)
(* The probe sequence of a lookup (specification IndexSpec).               *)
(***************************************************************************)
\* The k-th slot (1-based in the table) a lookup with hash h may read.
ProbedSlot(idx, h, k) ==
    ((hash_bucket(h, idx.mask) + (k \div BUCKET_SIZE)) % (idx.mask + 1)) * BUCKET_SIZE
    + (k % BUCKET_SIZE) + 1

\* The entry holds the tag of h and refers to block.
HoldsBlock(idx, entry, h, block) ==
    /\ entry /= EMPTY
    /\ entry_tag(entry) = SubSeq(h, 5, 8)
    /\ SliceOK(idx.text, entry_offset(entry), entry_offset(entry) + idx.block_size)
    /\ BlockAt(idx.text, entry_offset(entry), idx.block_size) = block

\* One of the first cap buckets of the probe sequence holds the block, with
\* no EMPTY slot before it.
HitWithin(idx, h, block, cap) ==
    \E k \in 0..(cap * BUCKET_SIZE - 1) :
        /\ HoldsBlock(idx, idx.table[ProbedSlot(idx, h, k)], h, block)
        /\ \A j \in 0..(k - 1) : idx.table[ProbedSlot(idx, h, j)] /= EMPTY

\* A lookup reads slots of at most cap buckets, the home bucket h & mask
\* and those after it modulo the number of buckets, and on a table nobody
\* writes it hits exactly when one of them holds the block.
ProbeContract(cap) ==
    (/\ lk.pc \in {"probe", "done"}
     /\ Len(lk.needle) >= ix.block_size
     /\ Len(ix.text) >= ix.block_size) =>
        /\ lk.p.probes < cap
        /\ lk.p.bucket = (hash_bucket(lk.h, ix.mask) + lk.p.probes) % (ix.mask + 1)
        /\ (lk.pc = "done" /\ lk.quiet =>
               (lk.out.len > 0
                   <=> HitWithin(ix, lk.h, Slice(lk.needle, 0, ix.block_size), cap)))

\* C29 as claimed: a lookup examines at most 4 buckets (32 slots), from
\* bucket h & mask on, modulo the table size, and returns no match if none
\* of those 4 buckets yields a hit.
C29_AsClaimed == ProbeContract(4)

\* C29 as amended: a lookup examines at most 5 buckets (40 slots), from
\* bucket h & mask on, modulo the number of buckets, and returns no match
\* if none of those 5 buckets yields a hit.
C29_ProbeCap == ProbeContract(5)

\* A lookup that gave up at the last slot of the fifth bucket.
C29_Witness ==
    /\ lk.pc = "done" /\ lk.quiet
    /\ Len(lk.needle) >= ix.block_size
    /\ lk.p.probes = 4 /\ lk.p.i = BUCKET_SIZE - 1
    /\ lk.out = NoMatch
    /\ ix.table[ProbedSlot(ix, lk.h, 5 * BUCKET_SIZE - 1)] /= EMPTY

\* A lookup reading a slot of the fifth bucket.
C29_FifthBucket ==
    /\ lk.pc = "probe"
    /\ lk.p.probes = 4

\* A hit in bucket 0 for a block whose home is the last bucket.
C29_WrapsAround ==
    /\ lk.pc = "done" /\ lk.quiet
    /\ lk.out.len > 0
    /\ lk.p.probes = 1 /\ lk.p.bucket = 0
    /\ hash_bucket(lk.h, ix.mask) = ix.mask

(***************************************************************************)
(* Table sizing and the end of population (specification PopulateSpec).    *)
(***************************************************************************)
MaxSizedLen == 150

MaxSizedBlock == 9

NumEntries(idx) == Len(idx.text) \div idx.block_size

IsPowerOfTwo(n) == \E k \in 0..24 : n = 2 ^ k

\* T = 8 * num_buckets slots, num_buckets a power of two, mask =
\* num_buckets - 1, T >= 2 * floor(|text| / block_size).
Sized(idx) ==
    /\ Len(idx.table) % BUCKET_SIZE = 0
    /\ IsPowerOfTwo(Len(idx.table) \div BUCKET_SIZE)
    /\ idx.mask = (Len(idx.table) \div BUCKET_SIZE) - 1
    /\ Len(idx.table) >= 2 * NumEntries(idx)

\* new_empty sizes the table of every text of up to MaxSizedLen bytes for
\* every block size from 4 to MaxSizedBlock.
SizedInRange ==
    \A len \in 0..MaxSizedLen : \A block_size \in 4..MaxSizedBlock :
        Sized(new_empty([j \in 1..len |-> 0], block_size))

NonEmptySlots(idx) == {s \in 1..Len(idx.table) : idx.table[s] /= EMPTY}

\* The inserts that have stored their entry or found their duplicate.
InsertsDone ==
    IF IsSerial THEN NumEntries(ix) - ins[1].st.left
    ELSE Cardinality({n \in DOMAIN ins : ins[n].pc = "done"})

\* The slots of its probe sequence the task has left behind.
SlotsPassed(idx, t) ==
    ((t.bucket - hash_bucket(t.h, idx.mask)) % (idx.mask + 1)) * BUCKET_SIZE + t.i

\* What a task has left to do at most: three steps for each slot of the
\* table it has not passed, less the steps taken at its slot.
TaskRank(idx, t) ==
    IF t.pc = "done" THEN 0
    ELSE 3 * (Len(idx.table) - SlotsPassed(idx, t))
         - (IF t.pc = "claim" THEN 1 ELSE IF t.pc = "replace" THEN 2 ELSE 0)

RECURSIVE SumRanks(_, _, _)
SumRanks(idx, ts, n) ==
    IF n = 0 THEN 0 ELSE TaskRank(idx, ts[n]) + SumRanks(idx, ts, n - 1)

\* The steps population has left at most.
StepsLeft == IF IsSerial THEN ins[1].st.left ELSE SumRanks(ix, ins, Len(ins))

\* C30: the table has T = 8 * num_buckets slots with num_buckets a power
\* of two, mask = num_buckets - 1 and T >= 2 * floor(|text| / block_size);
\* at most floor(|text| / block_size) slots are ever non-EMPTY; and every
\* step of an insert brings population nearer to its end: no probe loop
\* comes round to a slot it has passed, so that populate terminates.
C30_SizingAndTermination ==
    /\ [](/\ SizedInRange
          /\ Sized(ix)
          /\ Cardinality(NonEmptySlots(ix)) <= InsertsDone
          /\ InsertsDone <= NumEntries(ix)
          /\ StepsLeft >= 0
          /\ (Quiescent <=> StepsLeft = 0))
    /\ [][StepsLeft' < StepsLeft]_vars

\* A parallel population that has ended with as many entries as blocks,
\* two of them in an overflow bucket.
C30_Witness ==
    /\ ~IsSerial /\ Quiescent
    /\ NumEntries(ix) = CrowdedParBlocks
    /\ Cardinality(NonEmptySlots(ix)) = NumEntries(ix)
    /\ ix.table[BUCKET_SIZE + 2] /= EMPTY

\* A population with a block size other than 4 that has ended, with fewer
\* entries than blocks.
C30_OtherBlockSize ==
    /\ Quiescent
    /\ ix.block_size = BlockSize + 1
    /\ NumEntries(ix) = 2
    /\ Cardinality(NonEmptySlots(ix)) = 1

(***************************************************************************)
(* Chunk count of the chunked patch (specification PatchSpec).             *)
(***************************************************************************)
\* The num_chunks field of the header at the front of the patch.
HeaderNumChunks(patch) == Unwrap(get_le(patch, 16, 4)).val

RECURSIVE SumNewLen(_)
SumNewLen(chunks) ==
    IF chunks = <<>> THEN 0 ELSE Head(chunks).new_len + SumNewLen(Tail(chunks))

\* What the written patch must satisfy: as many records as the header
\* announces, record i at i * chunk_size, lengths adding up to |newer|,
\* and read_patch succeeding on it.
CountsAgree ==
    /\ pt.k = HeaderNumChunks(pt.patch)
    /\ read_patch(pt.patch).err = "none"
    /\ Len(read_patch(pt.patch).chunks) = pt.k
    /\ \A i \in 1..Len(read_patch(pt.patch).chunks) :
           read_patch(pt.patch).chunks[i].new_start
               = (i - 1) * patch_chunk_size(pt.newer, pt.scan_chunk_size)
    /\ SumNewLen(read_patch(pt.patch).chunks) = Len(pt.newer)

\* C31: chunk count consistency.  For every older, newer (the empty one
\* included) and scan_chunk_size, once simple_diff_chunked_with_params has
\* returned, the patch holds exactly num_chunks records, record i has
\* new_start = i * chunk_size, the new_len values sum to |newer|, and
\* read_patch succeeds on it.
C31_ChunkCount == pt.pc = "written" => CountsAgree

\* The same with the empty newer left out.
C31_NonEmptyNewer == (pt.pc = "written" /\ pt.newer /= <<>>) => CountsAgree

\* The same for scan_chunk_size = None, the empty newer included.
C31_Unchunked == (pt.pc = "written" /\ pt.scan_chunk_size = None) => CountsAgree

\* A written patch of three records whose header announces three chunks.
C31_ThreeRecords ==
    /\ pt.pc = "written"
    /\ pt.k = 3
    /\ HeaderNumChunks(pt.patch) = 3

\* The patch written for an empty newer with scan_chunk_size = Some(c): the
\* header announces one chunk and no record follows it.
C31_HeaderOnly ==
    /\ pt.pc = "written"
    /\ pt.newer = <<>>
    /\ IsSome(pt.scan_chunk_size)
    /\ HeaderNumChunks(pt.patch) = 1
    /\ pt.k = 0
    /\ Len(pt.patch) = 20


(***************************************************************************)
(* The old cursor (specification CursorSpec): either a run of              *)
(* assert_cycle_with_params, whose closure applies each Control with       *)
(* older_pos starting at 0, or a chunked patch written and applied chunk   *)
(* by chunk, apply_chunk starting old_pos at chunk.old_start.              *)
(***************************************************************************)
CursorInit == Init \/ PatchInit

CursorNext == Next \/ (pt /= Idle /\ PatchNext)

CursorSpec == CursorInit /\ [][CursorNext]_vars

\* The old cursor before the i-th of the Controls cs, from `start`.
RECURSIVE CursorAt(_, _, _)
CursorAt(cs, start, i) ==
    IF i = 1 THEN start
    ELSE CursorAt(cs, start, i - 1) + Len(cs[i - 1].add) + cs[i - 1].seek

\* The cursors of the while loop of apply_chunk, one record per turn: the
\* cursor before the ADD, after it and after the SEEK.
RECURSIVE chunk_cursors(_, _, _)
chunk_cursors_turn(ctrl, old, st, a) ==
    <<[before |-> st.old_pos, added |-> a.old_pos,
       sought |-> chunk_seek(ctrl, chunk_copy(ctrl, old, a)).old_pos,
       err    |-> chunk_seek(ctrl, chunk_copy(ctrl, old, a)).err]>>
    \o chunk_cursors(ctrl, old, chunk_seek(ctrl, chunk_copy(ctrl, old, a)))

chunk_cursors(ctrl, old, st) ==
    IF st.err /= "none" \/ read_varint_slice(ctrl, st.pos) = None THEN <<>>
    ELSE chunk_cursors_turn(ctrl, old, st,
             chunk_add(ctrl, old,
                       [st EXCEPT !.pos = Unwrap(read_varint_slice(ctrl, st.pos)).pos],
                       Unwrap(read_varint_slice(ctrl, st.pos)).val))

\* The cursors of apply_chunk on the i-th chunk read from the patch.
ChunkCursors(i) ==
    chunk_cursors(zstd_decompress(pt.chunks[i].data, pt.chunks[i].raw_len).data,
                  pt.older,
                  [pos |-> 0, old_pos |-> pt.chunks[i].old_start, out_pos |-> 0,
                   output |-> [j \in 1..pt.chunks[i].new_len |-> 0], err |-> "none"])

\* The Matches diff_chunked handed to on_chunk for the i-th chunk.
ChunkMatches(i) ==
    collect(iter_new, pt.older,
            IF IsSome(pt.scan_chunk_size)
            THEN chunk_nbuf(pt.newer, Unwrap(pt.scan_chunk_size), i - 1)
            ELSE pt.newer,
            pt.index).ms

InOld(c, older) == c >= 0 /\ c <= Len(older)

\* The Controls of a run, applied from cursor 0.
RunCursorTracks ==
    /\ \A i \in 1..Len(controls) :
           /\ i <= Len(seen)
           /\ CursorAt(controls, 0, i) = seen[i].add_old_start
           /\ InOld(CursorAt(controls, 0, i), obuf)
           /\ InOld(CursorAt(controls, 0, i) + Len(controls[i].add), obuf)
           /\ InOld(CursorAt(controls, 0, i + 1), obuf)
    /\ ap.failed /= "older index"
    /\ (\A j \in 1..Len(rets) : rets[j] = "ok")
           => ap.older_pos = CursorAt(controls, 0, Len(controls) + 1)

\* The Controls of every chunk read from a patch, applied from old_start.
ChunkCursorTracks ==
    \A i \in DOMAIN pt.chunks :
        /\ Len(ChunkCursors(i)) = Len(ChunkMatches(i))
        /\ \A j \in 1..Len(ChunkCursors(i)) :
               /\ ChunkCursors(i)[j].err = "none"
               /\ ChunkCursors(i)[j].before = ChunkMatches(i)[j].add_old_start
               /\ InOld(ChunkCursors(i)[j].before, pt.older)
               /\ InOld(ChunkCursors(i)[j].added, pt.older)
               /\ InOld(ChunkCursors(i)[j].sought, pt.older)

\* C32: old-cursor tracking.  Applying the Controls made from diff's Matches
\* with an old cursor that starts at 0 (at chunk.old_start for a chunk of a
\* chunked patch), advances by |add| during ADD and then by seek, the cursor
\* before the i-th Control's ADD is the i-th Match's add_old_start, and the
\* cursor is within [0, |older|] after every step, so no read of old by the
\* applier is out of range.
C32_CursorTracking ==
    /\ pc /= "idle" => RunCursorTracks
    /\ pt /= Idle => ChunkCursorTracks

\* A finished run of three Controls or more with a seek backwards and a
\* seek forwards, every Control applied.
C32_Witness ==
    /\ pc = "end"
    /\ rets = <<"ok", "ok">>
    /\ Len(controls) >= 3
    /\ \E i \in 1..Len(controls) : controls[i].seek < 0
    /\ \E i \in 1..Len(controls) : controls[i].seek > 0
    /\ ap.older_pos = CursorAt(controls, 0, Len(controls) + 1)

\* A patch applied to the end, with a chunk of two Controls or more whose
\* cursor is moved backwards by a seek.
C32_ChunkWitness ==
    /\ pt /= Idle
    /\ pt.pc = "done"
    /\ \E i \in DOMAIN pt.chunks :
           /\ Len(ChunkCursors(i)) >= 2
           /\ \E j \in 1..Len(ChunkCursors(i)) :
                  ChunkCursors(i)[j].sought < ChunkCursors(i)[j].added


(***************************************************************************)
(* The ring channel under fair scheduling (specification RingFairSpec):    *)
(* each thread that can take a step again and again eventually takes one, *)
(* so a thread that asks for the mutex gets it however often the other     *)
(* thread takes it.  A thread inside condvar.wait takes no step until it   *)
(* is notified; a wakeup without a notification may happen and is never    *)
(* owed.                                                                   *)
(***************************************************************************)
ProducerMoves == Push \/ PushStep \/ DropProducer \/ DropStep

ConsumerMoves == Pop \/ PopStep

RingFairSpec ==
    /\ RingInit
    /\ [][RingNext]_vars
    /\ SF_vars(ProducerMoves)
    /\ SF_vars(ConsumerMoves)

\* The producer has returned from every push and has been dropped, and the
\* consumer's last pop returned None.
RingDrained ==
    /\ rg.ppc = "dropped"
    /\ rg.popped /= <<>>
    /\ rg.popped[Len(rg.popped)] = None

\* Both threads are inside condvar.wait.
BothBlocked == rg.blocked = {"prod", "cons"}

\* C33: ring channel liveness.  Under fair scheduling of a producer that
\* pushes finitely many items and is then dropped, and of a consumer that
\* keeps calling pop, for every capacity >= 1 every push returns and the
\* consumer eventually receives None: no interleaving leaves both threads,
\* or one of them forever, blocked on the condition variable.
C33_RingLiveness == <>RingDrained

\* The safety part alone: the two threads are never both inside
\* condvar.wait.
C33_NeverBothBlocked == ~BothBlocked

\* The lost wakeup: the consumer waits although an item is in the ring, the
\* producer waits on the full ring, and the consumer_waiting flag the
\* producer read was still false.
C33_LostWakeup ==
    /\ BothBlocked
    /\ is_full(rg)
    /\ rg.consumer_waiting /\ rg.producer_waiting
    /\ ~rg.done

\* The channel can drain: a run in which nothing is lost.
C33_Drains ==
    /\ RingDrained
    /\ rg.pushed = MaxItems
    /\ rg.cap = 1


(***************************************************************************)
(* The chunked runs whose callback may fail, under fair scheduling         *)
(* (specification ErrFairSpec).  A scan worker is the loop                 *)
(* `for m in BsdiffIterator::new(obuf, nbuf, &index) { prod.push(m) }`:    *)
(* one step pushes the next Match of its chunk's scan, and the step after  *)
(* the last Match drops the RingProducer.  The scan workers and the join   *)
(* of thread::scope are scheduled fairly: a worker that can take a step    *)
(* eventually takes one, and a worker inside push on a full ring can take  *)
(* none.                                                                   *)
(***************************************************************************)
\* The chunks of the chunked runs ErrInit draws.
ErrChunks ==
    UNION {{chunk_nbuf(n, c, i) : i \in 0..(div_ceil(Len(n), c) - 1)} :
               n \in ParNewers, c \in ChunkSizes}
    \cup (PieceNewers \ {<<>>})

\* What BsdiffIterator yields over each old buffer and chunk, computed once.
ChunkScans ==
    [o \in ParOlders |->
        [n \in ErrChunks |-> collect(iter_new, o, n, new_index(o, BlockSize)).ms]]

\* The Matches the iterator of worker i yields.
ChunkScan(i) == ChunkScans[obuf][scan_nbuf(i)]

\* The chunked runs of ErrInit; sc holds what each worker's iterator yields.
ErrFairInit ==
    /\ \/ \E o \in ParOlders : \E n \in ParNewers : \E c \in ChunkSizes :
              InitRun(o, n, BlockSize, Some(c))
       \/ \E o \in ParOlders : \E n \in PieceNewers :
              InitRun(o, n, BlockSize, Some(WholeChunk))
    /\ ix = Idle /\ ins = Idle /\ lk = Idle /\ pt = Idle
    /\ rd = Idle /\ rg = Idle /\ dp = Idle
    /\ sc = [i \in Scans |-> ChunkScan(i)]
    /\ cb = <<>>

FairWorkerStep(i) ==
    /\ pc \in {"diff", "join"}
    /\ ~wdone[i]
    /\ IF Len(emitted[i]) < Len(sc[i])
       THEN /\ Len(rings[i]) < ErrRingCapacity
            /\ emitted' = [emitted EXCEPT ![i] = Append(@, sc[i][Len(emitted[i]) + 1])]
            /\ rings' = [rings EXCEPT ![i] = Append(@, sc[i][Len(emitted[i]) + 1])]
            /\ UNCHANGED wdone
       ELSE /\ wdone' = [wdone EXCEPT ![i] = TRUE]
            /\ UNCHANGED <<emitted, rings>>
    /\ UNCHANGED <<inputVars, iters, cons, seen, tr, controls, sent, rets, ap, pc,
                   indexVars, pt, extVars>>

ErrFairNext ==
    \/ \E i \in DOMAIN sc : FairWorkerStep(i)
    \/ ErrConsumerPop
    \/ ConsumerNext
    \/ DiffReturn
    \/ ErrJoin
    \/ Close
    \/ Drop
    \/ ErrDrop

ErrFairSpec ==
    /\ ErrFairInit
    /\ [][ErrFairNext]_vars
    /\ WF_vars(\E i \in DOMAIN sc : FairWorkerStep(i))
    /\ WF_vars(ErrJoin)

\* In ErrSpec, where a worker steps its iterator, what worker i has emitted
\* is the front of ChunkScan(i), and all of it once the worker has ended.
ScanIsChunkScan ==
    IsChunked =>
        /\ pc /= "panic_scan"
        /\ \A i \in Scans :
               /\ Len(emitted[i]) <= Len(ChunkScan(i))
               /\ emitted[i] = SubSeq(ChunkScan(i), 1, Len(emitted[i]))
               /\ (wdone[i] => Len(emitted[i]) = Len(ChunkScan(i)))

\* A worker of ErrFairSpec waits in push: its ring is full and its scan has
\* another Match.
FairPushWaits(i) ==
    /\ ~wdone[i]
    /\ Len(emitted[i]) < Len(sc[i])
    /\ Len(rings[i]) >= ErrRingCapacity

\* diff has left the closure of thread::scope with the Err of on_match and
\* waits for the scan thread.
ErrPending == IsChunked /\ pc = "join"

\* diff has returned the Err.
ErrReturned == pc \in {"diff_err", "end"} /\ Erred

\* C34: the error path terminates in parallel mode.  With scan_chunk_size
\* set, once on_match has returned an error while scan workers are still
\* producing, diff eventually returns that error: no worker stays blocked
\* forever in RingProducer::push on a full ring after the consumer side has
\* stopped popping and dropped its consumers.
C34_ErrorPathTerminates == ErrPending ~> ErrReturned

\* The same for the runs in which on_match fails on the last Match its
\* chunk's ring was to carry: no worker has anything left to push.
C34_DrainedWorkersJoin ==
    (ErrPending /\ \A i \in Scans : wdone[i]) ~> ErrReturned

\* A worker inside push on a full ring while diff waits for the scan thread
\* and nothing is left that would pop: no thread can take a step.
C34_WorkerStuckInPush ==
    /\ ErrPending
    /\ \E i \in DOMAIN sc : FairPushWaits(i)
    /\ \A i \in DOMAIN sc : wdone[i] \/ FairPushWaits(i)

\* An error returned while a worker was still producing.
C34_ReturnedWhileProducing ==
    /\ IsChunked
    /\ pc = "diff_err"
    /\ Erred
    /\ \E i \in Scans : Len(emitted[i]) > Len(seen)


(***************************************************************************)
(* Drop for Translator (specification ErrSpec): the Translator is dropped  *)
(* unclosed when diff returns an Err (pc = diff_err), and after close,     *)
(* whether close returned Ok or Err (pc = drop).                           *)
(***************************************************************************)
\* The step is the do_close of Drop.
DropRuns == pc \in {"diff_err", "drop"} /\ pc' /= pc

\* The final Control of the pending Match m.
FinalControl(m) ==
    [add  |-> [j \in 1..m.add_length |->
                  wrapping_sub(nbuf[m.add_new_start + j], obuf[m.add_old_start + j])],
     copy |-> SubSeq(nbuf, copy_start(m) + 1, m.copy_end),
     seek |-> 0]

\* What one Drop does: with a pending Match in a Translator that is not
\* closed, on_control gets its final Control once; otherwise it gets nothing.
\* Whatever on_control returns, Drop ends without a panic and leaves no
\* Match pending.
DropFlushes ==
    /\ pc' = "end"
    /\ tr'.prev_match = None
    /\ IF ~tr.closed /\ IsSome(tr.prev_match)
       THEN /\ sent' = 1
            /\ controls' = Append(controls, FinalControl(Unwrap(tr.prev_match)))
       ELSE /\ sent' = 0
            /\ controls' = controls

\* C35: implicit close on drop.  Dropping a Translator that was not closed
\* hands the pending final Control (seek = 0) to on_control exactly once, an
\* error on_control returns during that flush is discarded without a panic,
\* and dropping a Translator with no pending Match hands over nothing.
C35_ImplicitClose == [][DropRuns => DropFlushes]_vars

\* Drop of an unclosed Translator has flushed the pending Control, and
\* on_control returned an error, which went nowhere.
C35_Witness ==
    /\ pc = "end"
    /\ Erred
    /\ cb[Len(cb)] = "err"
    /\ Len(seen) >= 2
    /\ sent = 1
    /\ rets = <<"err">>
    /\ controls /= <<>>
    /\ controls[Len(controls)].seek = 0
    /\ ~tr.closed

\* Drop of a Translator with nothing pending: the translate that failed had
\* taken the pending Match.
C35_NothingPending ==
    /\ pc = "end"
    /\ Erred
    /\ cb[Len(cb)] = "control_err"
    /\ sent = 0
    /\ rets = <<"ok">>
    /\ tr.closed


(***************************************************************************)
(* A Translator driven by its caller (specification CallerSpec): any         *)
(* sequence of translate calls, each with a Match within the two buffers,  *)
(* then close and the Drop that follows it, or Drop alone.  on_control     *)
(* returns Ok or Err as it likes, and the caller goes on calling after an  *)
(* Err.  seen holds the Matches translated, rets what each call returned,  *)
(* controls what on_control received, and cb, for each call of on_control, *)
(* the index in seen of the pending Match it was made for and whether it   *)
(* returned Ok.                                                            *)
(***************************************************************************)
\* Most translate calls of a run.
MaxCalls == 3

CallOlder == <<0, 1>>

CallNewer == <<1, 0, 1>>

\* The Matches translate is called with: one byte of ADD, then a COPY.
CallMatches ==
    {m \in [add_old_start : 0..(Len(CallOlder) - 1),
            add_new_start : 0..(Len(CallNewer) - 2),
            add_length    : {1},
            copy_end      : 1..Len(CallNewer)] :
        m.add_new_start + m.add_length <= m.copy_end}

CallerInit ==
    /\ obuf = CallOlder /\ nbuf = CallNewer
    /\ params = [block_size |-> BlockSize, scan_chunk_size |-> None]
    /\ index = Idle /\ iters = Idle /\ emitted = Idle /\ rings = Idle /\ wdone = Idle
    /\ cons = 0 /\ seen = <<>> /\ tr = translator_new /\ controls = <<>> /\ sent = 0
    /\ rets = <<>> /\ ap = applier_new /\ pc = "calls"
    /\ ix = Idle /\ ins = Idle /\ lk = Idle /\ pt = Idle
    /\ rd = Idle /\ rg = Idle /\ sc = Idle /\ dp = Idle
    /\ cb = <<>>

callRest == <<inputVars, scanVars, ap, indexVars, pt, rd, rg, sc, dp>>

\* What a Translator call t leaves behind; the pending Match it may have
\* flushed is the one the latest translate stored.
CallDone(t, cb_ok, to) ==
    /\ tr' = t.tr
    /\ controls' = controls \o t.ctl
    /\ sent' = Len(t.ctl)
    /\ cb' = IF IsSome(t.ctl) THEN Append(cb, [of |-> Len(seen), ok |-> cb_ok]) ELSE cb
    /\ rets' = Append(rets, IF t.ok THEN "ok" ELSE "err")
    /\ pc' = IF t.panic THEN "panic_translate" ELSE to

\* translator.translate(m)
TranslateCall ==
    /\ pc = "calls"
    /\ Len(seen) < MaxCalls
    /\ \E m \in CallMatches : \E cb_ok \in BOOLEAN :
           /\ CallDone(translate(tr, m, obuf, nbuf, cb_ok), cb_ok, "calls")
           /\ seen' = Append(seen, m)
    /\ UNCHANGED callRest

\* translator.close()
CloseCall ==
    /\ pc = "calls"
    /\ \E cb_ok \in BOOLEAN : CallDone(do_close(tr, nbuf, cb_ok), cb_ok, "drop")
    /\ UNCHANGED <<seen, callRest>>

\* Drop for Translator, after close or without it.
DropCall ==
    /\ pc \in {"calls", "drop"}
    /\ \E cb_ok \in BOOLEAN : CallDone(do_close(tr, nbuf, cb_ok), cb_ok, "end")
    /\ UNCHANGED <<seen, callRest>>

CallerNext == TranslateCall \/ CloseCall \/ DropCall

CallerSpec == CallerInit /\ [][CallerNext]_vars

\* The Control of the Match m.
ControlOf(m, seek) ==
    [add  |-> [j \in 1..m.add_length |->
                  wrapping_sub(nbuf[m.add_new_start + j], obuf[m.add_old_start + j])],
     copy |-> SubSeq(nbuf, copy_start(m) + 1, m.copy_end),
     seek |-> seek]

\* The i-th call of on_control was made with the Control of the Match
\* seen[cb[i].of]: its seek leads to the Match translated next, or is 0
\* when close or Drop made the call.
DeliveredIs(i) ==
    /\ cb[i].of \in 1..Len(seen)
    /\ \/ /\ cb[i].of < Len(seen)
          /\ controls[i] = ControlOf(seen[cb[i].of],
                                     seen[cb[i].of + 1].add_old_start
                                     - (seen[cb[i].of].add_old_start
                                        + seen[cb[i].of].add_length))
       \/ /\ Len(rets) > Len(seen)
          /\ controls[i] = ControlOf(seen[cb[i].of], 0)

\* C36: at-most-once delivery.  Over any sequence of translate calls followed
\* by close and Drop, whatever on_control returns, on_control is called at
\* most once for each translated Match and in translate order; after a failed
\* translate(m) or a failed close, neither the Control that failed nor any
\* Control for m is handed over by a later call, close or Drop.
C36_AtMostOnce ==
    /\ pc /= "panic_translate"
    /\ Len(controls) = Len(cb)
    /\ \A i \in 1..Len(cb) : DeliveredIs(i)
    /\ \A i \in 1..Len(cb) : \A j \in 1..Len(cb) : i < j => cb[i].of < cb[j].of
    /\ \A k \in 1..Len(seen) :
           rets[k] = "err" => \A i \in 1..Len(cb) : cb[i].of /= k
    /\ \A i \in 1..Len(cb) : rets[cb[i].of] = "ok"

\* A run in which a translate failed, the caller went on, and close and Drop
\* followed: the Match of the failed translate got no Control and the one
\* before it got the Control that failed, once.
C36_Witness ==
    /\ pc = "end"
    /\ Len(seen) = MaxCalls
    /\ rets = <<"ok", "err", "ok", "ok", "ok">>
    /\ Len(cb) = 2
    /\ cb[1] = [of |-> 1, ok |-> FALSE]
    /\ cb[2] = [of |-> 3, ok |-> TRUE]

\* A failed close followed by Drop, which hands over nothing.
C36_FailedClose ==
    /\ pc = "end"
    /\ Len(seen) >= 1
    /\ rets[Len(rets) - 1] = "err"
    /\ rets[Len(rets)] = "ok"
    /\ cb[Len(cb)] = [of |-> Len(seen), ok |-> FALSE]
    /\ sent = 0


(***************************************************************************)
(* One record of the tagged control stream (specification RecordSpec):     *)
(* Writer::write_extended(c, copy_old) writes the record of a Control, and *)
(* one turn of the while loop of apply_chunk decodes it against old, from  *)
(* the cursor old_start, into an output of |add| + |copy| bytes.  rd holds *)
(* the Control, the stream and the decoder's state after the ADD (added)   *)
(* and after the turn (st).                                                *)
(***************************************************************************)
\* Longest add and longest copy of a Control.
MaxAdd == 2

MaxCopy == 2

RecordOld == <<0, 7, 0>>

\* Delta bytes, zero or not, and bytes that occur in RecordOld.
AddBytes == {0, 1, 255}

CopyBytes == {0, 7}

RecordSeeks == {-1, 0, 1}

\* copy_old: None, or Some(p) with old[p .. p + |copy|] = copy.
CopyOlds(old, copy) ==
    {None} \cup {Some(p) : p \in {q \in 0..Len(old) :
                                     /\ q + Len(copy) <= Len(old)
                                     /\ Slice(old, q, q + Len(copy)) = copy}}

InitRecord(c, copy_old, old_start) ==
    rd = [c |-> c, copy_old |-> copy_old, old |-> RecordOld, old_start |-> old_start,
          ctrl |-> <<>>, added |-> None, st |-> None, pc |-> "new"]

\* The Controls whose ADD and seek keep the cursor within old.
RecordInit ==
    /\ \E add \in SeqsUpTo(AddBytes, MaxAdd) : \E copy \in SeqsUpTo(CopyBytes, MaxCopy) :
       \E seek \in RecordSeeks : \E old_start \in 0..Len(RecordOld) :
       \E copy_old \in CopyOlds(RecordOld, copy) :
           /\ old_start + Len(add) <= Len(RecordOld)
           /\ old_start + Len(add) + seek \in 0..Len(RecordOld)
           /\ InitRecord([add |-> add, copy |-> copy, seek |-> seek], copy_old, old_start)
    /\ RunIdle
    /\ ix = Idle /\ ins = Idle /\ lk = Idle /\ pt = Idle
    /\ rg = Idle /\ sc = Idle /\ dp = Idle /\ cb = Idle

\* Writer::write_extended(c, copy_old)
WriteRecord ==
    /\ rd.pc = "new"
    /\ rd' = [rd EXCEPT !.ctrl = write_extended(rd.c, rd.copy_old), !.pc = "written"]
    /\ UNCHANGED readerRest

\* The state apply_chunk starts its loop in.
decode_start(r) ==
    [pos |-> 0, old_pos |-> r.old_start, out_pos |-> 0,
     output |-> [j \in 1..(Len(r.c.add) + Len(r.c.copy)) |-> 0], err |-> "none"]

\* apply_chunk, one turn of its loop up to the end of the ADD.
decode_add(ctrl, old, st) ==
    chunk_add(ctrl, old,
              [st EXCEPT !.pos = Unwrap(read_varint_slice(ctrl, st.pos)).pos],
              Unwrap(read_varint_slice(ctrl, st.pos)).val)

\* apply_chunk, the rest of the turn: COPY and SEEK.
decode_rest(ctrl, old, st) == chunk_seek(ctrl, chunk_copy(ctrl, old, st))

\* One turn of `while let Some(add_tag) = read_varint_slice(..)`.
DecodeRecord ==
    /\ rd.pc = "written"
    /\ rd' = [rd EXCEPT
                 !.added = Some(decode_add(rd.ctrl, rd.old, decode_start(rd))),
                 !.st = Some(decode_rest(rd.ctrl, rd.old,
                                         decode_add(rd.ctrl, rd.old, decode_start(rd)))),
                 !.pc = "decoded"]
    /\ UNCHANGED readerRest

\* The loop goes on until the stream yields no add_tag or a turn fails.
DecodeOn ==
    /\ rd.pc = "decoded"
    /\ rd' = [rd EXCEPT !.st = Some(apply_loop(rd.ctrl, rd.old, Unwrap(rd.st))),
                        !.pc = "done"]
    /\ UNCHANGED readerRest

RecordNext == WriteRecord \/ DecodeRecord \/ DecodeOn

RecordSpec == RecordInit /\ [][RecordNext]_vars

\* The turn and the rest of the loop together are the loop of apply_chunk.
TurnsAreApplyLoop ==
    rd.pc = "done" => Unwrap(rd.st) = apply_loop(rd.ctrl, rd.old, decode_start(rd))

AllZero(add) == \A j \in 1..Len(add) : add[j] = 0

\* old + add (mod 256) from the cursor, then the bytes of copy.
Decoded(r) ==
    [j \in 1..(Len(r.c.add) + Len(r.c.copy)) |->
        IF j <= Len(r.c.add) THEN (r.old[r.old_start + j] + r.c.add[j]) % 256
        ELSE r.c.copy[j - Len(r.c.add)]]

\* The round trip of the record in rd.
RecordRoundTrip ==
    /\ Unwrap(rd.st).err = "none"
    /\ Unwrap(rd.st).output = Decoded(rd)
    /\ Unwrap(rd.st).pos = Len(rd.ctrl)
    /\ Unwrap(rd.st).old_pos = rd.old_start + Len(rd.c.add) + rd.c.seek
    /\ Unwrap(rd.added).old_pos = rd.old_start + Len(rd.c.add)
    /\ (Unwrap(read_varint_slice(rd.ctrl, 0)).val % 2 = 1) <=> AllZero(rd.c.add)
    /\ Unwrap(rd.added).pos
           = Unwrap(read_varint_slice(rd.ctrl, 0)).pos
             + (IF AllZero(rd.c.add) THEN 0 ELSE Len(rd.c.add))

\* C37: tagged control encoding round trip.  For every Control c and every
\* copy_old (None, or Some(p) with old[p .. p + |c.copy|] = c.copy), the
\* record decoder of apply_chunk, given the bytes write_extended(c, copy_old)
\* wrote, produces |c.add| bytes equal to old + c.add (mod 256) and then the
\* bytes of c.copy, consumes the record exactly, moves the old cursor by
\* |c.add| + c.seek and by nothing else, and the delta bytes are left out of
\* the stream exactly when every byte of c.add is zero.
C37_RecordRoundTrip == rd.pc \in {"decoded", "done"} => RecordRoundTrip

\* The same for the literal COPY, copy_old = None.
C37_LiteralCopy ==
    (rd.pc \in {"decoded", "done"} /\ rd.copy_old = None) => RecordRoundTrip

\* The same for a copy-from-old of one byte or more.
C37_CopyFromOld ==
    (rd.pc \in {"decoded", "done"} /\ IsSome(rd.copy_old) /\ rd.c.copy /= <<>>)
        => RecordRoundTrip

\* A copy-from-old round trip with a delta that is not all zero.
C37_RoundTrips ==
    /\ rd.pc = "decoded"
    /\ RecordRoundTrip
    /\ rd.copy_old = Some(1)
    /\ rd.c.copy = <<7, 0>>
    /\ rd.c.add = <<255, 0>>
    /\ rd.c.seek = -1

\* An empty copy written as a copy-from-old: the decoder takes the old_pos
\* varint for the seek and leaves the seek in the stream.
C37_EmptyCopyFromOld ==
    /\ rd.pc = "decoded"
    /\ rd.c.copy = <<>>
    /\ rd.copy_old = Some(2)
    /\ rd.c.seek = 0
    /\ Unwrap(rd.st).err = "none"
    /\ Unwrap(rd.st).pos = Len(rd.ctrl) - 1
    /\ Unwrap(rd.st).old_pos = rd.old_start + Len(rd.c.add) + 1


(***************************************************************************)
(* populate called twice (specification RepopulateSpec): HashIndex::new    *)
(* populates the index, and the non-chunked path of diff_chunked calls     *)
(* populate on it again.  pt counts the calls and keeps the table the      *)
(* first call left.                                                        *)
(***************************************************************************)
RepopulateInit ==
    /\ \/ \E text \in PopulateTexts : \E parallel \in BOOLEAN :
              InitPopulate(text, BlockSize, parallel)
       \/ InitPopulate(WrapText, BlockSize, FALSE)
    /\ RunIdle
    /\ pt = [calls |-> 1, first |-> None]
    /\ ExtIdle

\* The work of a call of populate on the index idx, in the build of `work`.
populate_work(idx, work) ==
    IF work /= <<>> /\ "st" \in DOMAIN work[1]
    THEN <<serial_loop(serial_start(idx))>>
    ELSE [n \in 1..(Len(idx.text) \div idx.block_size) |-> task_new(idx, n - 1)]

\* index.populate() in diff_chunked, once HashIndex::new has returned.
PopulateAgain ==
    /\ pt.calls = 1
    /\ Quiescent
    /\ pt' = [calls |-> 2, first |-> Some(ix.table)]
    /\ ins' = populate_work(ix, ins)
    /\ UNCHANGED <<ix, lk, runVars, extVars>>

RepopulateNext == PopulateNext \/ PopulateAgain

RepopulateSpec == RepopulateInit /\ [][RepopulateNext]_vars

\* The second call has returned.
Repopulated == pt.calls = 2 /\ Quiescent

\* longest_substring_match of every needle, on the table `table`.
LookupsOf(table) ==
    [needle \in NeedlesOf(ix.text, ix.block_size) |->
        longest_substring_match([ix EXCEPT !.table = table], needle)]

\* C38: populate is idempotent.  When populate is called again on an index
\* that is already populated, as diff_chunked does on its non-chunked path,
\* then once it has returned every slot of the table has the value it had
\* before the second call, so every lookup returns what it returned after
\* the first.
C38_Idempotent ==
    Repopulated =>
        /\ ix.table = Unwrap(pt.first)
        /\ LookupsOf(ix.table) = LookupsOf(Unwrap(pt.first))

\* The same without the feature "parallel".
C38_SerialIdempotent == (Repopulated /\ IsSerial) => ix.table = Unwrap(pt.first)

\* The same with the feature "parallel" when the first call left the
\* earliest offset of every block.
C38_EarliestStays ==
    (/\ Repopulated
     /\ \A s \in DOMAIN Unwrap(pt.first) :
            Unwrap(pt.first)[s] /= EMPTY =>
                entry_offset(Unwrap(pt.first)[s])
                    = EarliestOffset(ix, BlockAt(ix.text,
                                                 entry_offset(Unwrap(pt.first)[s]),
                                                 ix.block_size)))
        => ix.table = Unwrap(pt.first)

\* The first call left a later offset of a block that occurs three times,
\* and the second call put an earlier one in its slot.
C38_SecondCallMoves ==
    /\ Repopulated
    /\ ~IsSerial
    /\ \E s \in DOMAIN ix.table :
           /\ Unwrap(pt.first)[s] /= EMPTY
           /\ entry_offset(ix.table[s]) < entry_offset(Unwrap(pt.first)[s])

\* A serial second call that has overwritten a slot and put its value back.
C38_SerialRewrites ==
    /\ Repopulated
    /\ IsSerial
    /\ ix.table = Unwrap(pt.first)
    /\ Cardinality({s \in DOMAIN ix.table : ix.table[s] /= EMPTY}) >= 2
    /\ Len(ix.text) \div ix.block_size >= 3


(***************************************************************************)
(* The ring pipe of bic (specification PipeSpec): one RingWriter and one   *)
(* RingReader over a ring of bytes, each a thread that takes one step per  *)
(* operation of the ring, per atomic access and per operation of the mutex *)
(* and the condition variable.  The writer offers the bytes 1, 2, .. in    *)
(* write calls of any length and is then dropped; the reader calls read    *)
(* with buffers of any length until read returns Ok(0).  rg holds the      *)
(* ring (buf), the bytes write has accepted (accepted), the bytes read has *)
(* returned (got) and what every read call returned (reads).               *)
(***************************************************************************)
\* Largest capacity of the pipe, most bytes the writer offers, and longest
\* buffer handed to read.
MaxPipeCapacity == 2

MaxPipeBytes == 3

MaxReadLen == 2

\* ring_pipe(capacity), with both threads between calls.
ring_pipe(capacity) ==
    [cap |-> capacity, buf |-> <<>>, done |-> FALSE,
     mu |-> FALSE,              \* the mutex is held
     blocked |-> {},            \* the threads inside condvar.wait
     wpc |-> "idle", wlen |-> 0, accepted |-> 0,
     rpc |-> "idle", rlen |-> 0, rn |-> 0, got |-> <<>>, reads |-> <<>>]

\* condvar.wait returns in the thread t.
pipe_wake(r, t) ==
    IF t = "writer"
    THEN [r EXCEPT !.blocked = @ \ {t}, !.wpc = "woken"]
    ELSE [r EXCEPT !.blocked = @ \ {t}, !.rpc = "woken"]

\* condvar.notify_one(): one of the threads that wait, if any.
pipe_notify_one(r) ==
    IF r.blocked = {} THEN {r} ELSE {pipe_wake(r, t) : t \in r.blocked}

\* self.prod.push_slice(buf): the bytes that fit.
push_slice(r) ==
    [r EXCEPT !.buf = @ \o [j \in 1..Min(r.wlen, r.cap - Len(r.buf)) |-> r.accepted + j],
              !.accepted = @ + Min(r.wlen, r.cap - Len(r.buf))]

\* The states after one step of <RingWriter as Write>::write.
write_step(r) ==
    CASE r.wpc = "push" ->
             IF Min(r.wlen, r.cap - Len(r.buf)) > 0
             THEN {[push_slice(r) EXCEPT !.wpc = "notify"]}
             ELSE {[r EXCEPT !.wpc = "lock"]}
      [] r.wpc = "notify" ->
             {[x EXCEPT !.wpc = "idle"] : x \in pipe_notify_one(r)}
      [] r.wpc = "lock" ->
             IF r.mu THEN {} ELSE {[r EXCEPT !.mu = TRUE, !.wpc = "locked"]}
      [] r.wpc = "locked" ->
             IF Len(r.buf) >= r.cap
             THEN {[r EXCEPT !.wpc = "wait"]}
             ELSE {[r EXCEPT !.mu = FALSE, !.wpc = "push"]}
      [] r.wpc = "wait" ->
             {[r EXCEPT !.mu = FALSE, !.blocked = @ \cup {"writer"}, !.wpc = "blocked"]}
      [] r.wpc = "woken" ->
             IF r.mu THEN {} ELSE {[r EXCEPT !.wpc = "push"]}
      [] OTHER -> {}

\* The states after one step of <RingWriter as Drop>::drop.
writer_drop_step(r) ==
    CASE r.wpc = "store_done" -> {[r EXCEPT !.done = TRUE, !.wpc = "drop_notify"]}
      [] r.wpc = "drop_notify" ->
             {[x EXCEPT !.wpc = "dropped"] : x \in pipe_notify_one(r)}
      [] OTHER -> {}

\* read returns Ok(n).
read_return(r, n) == [r EXCEPT !.reads = Append(@, n), !.rpc = "idle"]

\* self.cons.pop_slice(buf): the bytes at the front of the ring.
pop_slice(r) ==
    [r EXCEPT !.got = @ \o SubSeq(r.buf, 1, Min(r.rlen, Len(r.buf))),
              !.buf = SubSeq(@, Min(r.rlen, Len(r.buf)) + 1, Len(r.buf)),
              !.rn = Min(r.rlen, Len(r.buf))]

\* The states after one step of <RingReader as Read>::read.
read_step(r) ==
    CASE r.rpc = "pop" ->
             IF Min(r.rlen, Len(r.buf)) > 0
             THEN {[pop_slice(r) EXCEPT !.rpc = "notify"]}
             ELSE {[r EXCEPT !.rpc = "load_done"]}
      [] r.rpc = "notify" ->
             {read_return(x, r.rn) : x \in pipe_notify_one(r)}
      [] r.rpc = "load_done" ->
             IF r.done THEN {read_return(r, 0)} ELSE {[r EXCEPT !.rpc = "lock"]}
      [] r.rpc = "lock" ->
             IF r.mu THEN {} ELSE {[r EXCEPT !.mu = TRUE, !.rpc = "locked_empty"]}
      [] r.rpc = "locked_empty" ->
             IF r.buf = <<>>
             THEN {[r EXCEPT !.rpc = "locked_done"]}
             ELSE {[r EXCEPT !.mu = FALSE, !.rpc = "pop"]}
      [] r.rpc = "locked_done" ->
             IF r.done
             THEN {[r EXCEPT !.mu = FALSE, !.rpc = "pop"]}
             ELSE {[r EXCEPT !.rpc = "wait"]}
      [] r.rpc = "wait" ->
             {[r EXCEPT !.mu = FALSE, !.blocked = @ \cup {"reader"}, !.rpc = "blocked"]}
      [] r.rpc = "woken" ->
             IF r.mu THEN {} ELSE {[r EXCEPT !.rpc = "pop"]}
      [] OTHER -> {}

PipeInit ==
    /\ \E capacity \in 1..MaxPipeCapacity : rg = ring_pipe(capacity)
    /\ RunIdle
    /\ ix = Idle /\ ins = Idle /\ lk = Idle /\ pt = Idle
    /\ rd = Idle /\ sc = Idle /\ dp = Idle /\ cb = Idle

\* The writer's thread calls write with a buffer of len bytes.
WriteCall ==
    /\ rg.wpc = "idle"
    /\ \E len \in 1..(MaxPipeBytes - rg.accepted) :
           rg' = [rg EXCEPT !.wpc = "push", !.wlen = len]
    /\ UNCHANGED ringRest

WriteStep ==
    /\ rg' \in write_step(rg)
    /\ UNCHANGED ringRest

\* The writer's thread drops the RingWriter.
DropWriter ==
    /\ rg.wpc = "idle"
    /\ rg' = [rg EXCEPT !.wpc = "store_done"]
    /\ UNCHANGED ringRest

DropWriterStep ==
    /\ rg' \in writer_drop_step(rg)
    /\ UNCHANGED ringRest

\* The reader's thread calls read with a buffer of len bytes, until read
\* has returned Ok(0).
ReadBuf ==
    /\ rg.rpc = "idle"
    /\ IF rg.reads = <<>> THEN TRUE ELSE rg.reads[Len(rg.reads)] /= 0
    /\ \E len \in 1..MaxReadLen : rg' = [rg EXCEPT !.rpc = "pop", !.rlen = len]
    /\ UNCHANGED ringRest

ReadStep ==
    /\ rg' \in read_step(rg)
    /\ UNCHANGED ringRest

\* condvar.wait may return without a notification.
PipeSpuriousWakeup ==
    /\ \E t \in rg.blocked : rg' = pipe_wake(rg, t)
    /\ UNCHANGED ringRest

PipeNext ==
    \/ WriteCall
    \/ WriteStep
    \/ DropWriter
    \/ DropWriterStep
    \/ ReadBuf
    \/ ReadStep
    \/ PipeSpuriousWakeup

PipeSpec == PipeInit /\ [][PipeNext]_vars

\* The bytes returned, then the bytes in the ring, are the bytes accepted,
\* in write order.
PipeInOrder ==
    /\ rg.got \o rg.buf = [j \in 1..rg.accepted |-> j]
    /\ Len(rg.buf) <= rg.cap

\* Ok(0) is the last thing read returned, with the writer dropped and every
\* accepted byte returned before.
EofAfterAll ==
    \A j \in 1..Len(rg.reads) :
        rg.reads[j] = 0 =>
            /\ j = Len(rg.reads)
            /\ rg.wpc \in {"drop_notify", "dropped"}
            /\ Len(rg.got) = rg.accepted

\* C39: ring pipe end of stream.  In every interleaving of one RingWriter and
\* one RingReader, read returns Ok(0) only if the writer has been dropped and
\* every byte write accepted has been returned by earlier reads, and the
\* bytes are returned in write order, none lost and none twice.
C39_PipeEndOfStream == PipeInOrder /\ EofAfterAll

\* What holds of every interleaving: order, no loss in the ring, no repeat.
C39_InOrder == PipeInOrder

\* Ok(0) is returned only once the writer has been dropped.
C39_EofAfterDrop ==
    \A j \in 1..Len(rg.reads) :
        rg.reads[j] = 0 => j = Len(rg.reads) /\ rg.wpc \in {"drop_notify", "dropped"}

\* read has returned Ok(0) with a byte still in the ring: it found the ring
\* empty, the writer then wrote and was dropped, and read saw done.
C39_EofBeforeLastByte ==
    /\ rg.reads /= <<>>
    /\ rg.reads[Len(rg.reads)] = 0
    /\ rg.buf /= <<>>
    /\ rg.done
    /\ Len(rg.got) < rg.accepted

\* A pipe drained to the end: every byte returned, then Ok(0).
C39_Drained ==
    /\ rg.reads /= <<>>
    /\ rg.reads[Len(rg.reads)] = 0
    /\ rg.accepted = MaxPipeBytes
    /\ rg.got = [j \in 1..MaxPipeBytes |-> j]
    /\ rg.cap = 1

(***************************************************************************)
(* The ring pipe under fair scheduling (specification PipeFairSpec): a     *)
(* thread that can take a step again and again eventually takes one.  A    *)
(* thread inside condvar.wait takes no step until it is notified; a wakeup *)
(* without a notification may happen and is never owed.                    *)
(***************************************************************************)
WriterMoves == WriteCall \/ WriteStep \/ DropWriter \/ DropWriterStep

ReaderMoves == ReadBuf \/ ReadStep

PipeFairSpec ==
    /\ PipeInit
    /\ [][PipeNext]_vars
    /\ SF_vars(WriterMoves)
    /\ SF_vars(ReaderMoves)

ReaderBlocked == "reader" \in rg.blocked

WriterBlocked == "writer" \in rg.blocked

\* C40: ring pipe liveness.  Under fair scheduling a RingReader blocked in
\* read returns once the writer has written or has been dropped (the notify
\* that write and Drop issue without holding the mutex is never lost), and a
\* RingWriter blocked in write on a full ring returns once the reader has
\* read.
C40_PipeLiveness ==
    /\ (ReaderBlocked /\ (rg.buf /= <<>> \/ rg.done)) ~> ~ReaderBlocked
    /\ (WriterBlocked /\ Len(rg.buf) < rg.cap) ~> ~WriterBlocked

\* The safety part alone: no thread is inside condvar.wait while what it
\* waits for has happened and the other thread has finished notifying.
C40_NoLostNotify ==
    /\ ~(ReaderBlocked /\ rg.done /\ rg.wpc = "dropped")
    /\ ~(ReaderBlocked /\ WriterBlocked)

\* The notify of Drop lost: the reader saw the ring empty and done unset,
\* the writer was dropped and notified nobody, and the reader waits.
C40_ReaderWaitsAfterDrop ==
    /\ ReaderBlocked
    /\ rg.done
    /\ rg.wpc = "dropped"
    /\ rg.buf = <<>>

\* The notify of read lost: the writer waits on a ring that is no longer
\* full while the reader waits on the ring that is empty.
C40_BothWait ==
    /\ ReaderBlocked
    /\ WriterBlocked
    /\ rg.buf = <<>>
    /\ ~rg.done

\* A wait that was ended by a notify: the reader was blocked and has since
\* returned bytes.
C40_ReaderWoken ==
    /\ rg.rpc = "woken"
    /\ rg.buf /= <<>>
    /\ rg.wpc = "idle"

====
